---------------------------- MODULE Spec2Model ----------------------------
(***************************************************************************)
(* Model of the batch planner, the commitment hashing engine and the       *)
(* transaction builder of usernode-circuits (src/src/batch.rs,             *)
(* src/src/poseidon2.rs, src/src/bn254.rs, src/src/types.rs,               *)
(* src/src/keys.rs, src/src/tx.rs).                                        *)
(*                                                                         *)
(* Field elements.  The proving backend supplies the field arithmetic and  *)
(* the Poseidon2 permutation; neither is part of the repository.  A Field  *)
(* is modelled as a term over them, written as a flat sequence of naturals *)
(* in prefix form (a uniquely decodable code, so two Fields are equal      *)
(* exactly when their terms are):                                          *)
(*     <<0, n>>                 the literal Field::from(n)                 *)
(*     <<3, n>>                 2^64 * n, n > 0 (beyond TLC's integers)    *)
(*     <<1, i>> \o s1..s4       output slot i of the permutation of s1..s4 *)
(*     <<2>> \o a \o b          a + b where neither is the literal zero    *)
(*     <<4, n>>                 modulus - n, n > 0: the value -n wraps to  *)
(*     <<5>> \o a \o b          a - b where one of them is no number       *)
(* The permutation is thereby an injective, otherwise uninterpreted map,   *)
(* which is how the claims about folding treat it.  The byte encoding of a *)
(* Field is the term itself, compared lexicographically, so literals order *)
(* as their big-endian bytes do.                                           *)
(*                                                                         *)
(* The sponge and the loop turns bind each intermediate value once, as a   *)
(* bound variable ranging over a singleton set, where the code has a `let`:*)
(* TLC would otherwise evaluate a definition anew at each of its uses when *)
(* it evaluates the enabledness of an action.                              *)
(***************************************************************************)
EXTENDS Integers, Sequences, FiniteSets, TLC

VARIABLES
    scenario,     \* which function family the inputs were drawn for
    cands,        \* input: the candidate list handed to the planner
    membership,   \* input: the commitments the membership oracle accepts
    hashes,       \* input: the slice handed to canonical_root_even
    pc,           \* "input" before the call, "done" after it returned
    op,           \* the function that was called
    sorted,       \* the candidate list after the function's sort_by
    trace,        \* loop states of validate_and_plan_block, one per turn
    ordered,      \* the leaf list handed to plan_block
    block,        \* the BindingBlock returned (<<>> before the call)
    root,         \* Option<Field> returned by canonical_root_even
    fallback,     \* whether the `_ => return None` arm was taken
    hash_out,     \* the Field returned by the hash function called
    permutes,     \* how often that call applied permute4
    request,      \* input: the SpendRequest or MergeRequest
    locals,       \* prove_spend / prove_merge: the values computed before the loop
    salts,        \* the current output salts (resampled by the loop)
    prepared,     \* the pack the loop broke with (<<>> before that)
    result,       \* Ok(tx) or Err(message) returned (<<>> before the return)
    effects,      \* which of the callbacks and backends have been called
    reported,     \* the commitment list ensure_unique last reported as colliding
    CACHE,        \* catalog.rs: the map from circuit name to CircuitEntry
    cache_guard,  \* the thread holding the mutex of CACHE across steps (0: none)
    EMBEDDED_INIT, \* prover.rs: the OnceLock holding the result of init_embedded
    CRS_INIT,     \* prover.rs: whether ensure_crs has set the CRS path
    VK_REGISTRY,  \* the registry of verifying keys that have no circuit name
    BB_GUARD,     \* barretenberg.rs: the thread holding the backend mutex (0: none)
    thread,       \* per thread: the call it is in, its position and its locals
    bb_calls      \* the calls in progress inside the backend, and how many were made

hashvars == <<hash_out, permutes>>

txvars == <<request, locals, salts, prepared, result, effects, reported>>

catvars == <<CACHE, cache_guard, EMBEDDED_INIT, CRS_INIT, VK_REGISTRY, BB_GUARD,
             thread, bb_calls>>

vars == <<scenario, cands, membership, hashes, pc, op, sorted, trace,
          ordered, block, root, fallback, hashvars, txvars, catvars>>

(***************************************************************************)
(* Bounds of the model.                                                    *)
(***************************************************************************)
MaxCands == 3
MaxHashes == 6
MaxLeaves == 2
MaxInputs == 7
MaxSalt == 2
MaxThreads == 2
MaxCalls == 3
MaxVkCalls == 3

(***************************************************************************)
(* bn254::Field                                                            *)
(***************************************************************************)
Lit(n) == <<0, n>>

Zero == Lit(0)

IsLit(f) == Len(f) = 2 /\ f[1] = 0

\* modulus - n
Neg(n) == <<4, n>>

IsNeg(f) == Len(f) = 2 /\ f[1] = 4

\* the Field of an integer of small magnitude, reduced into the field
Reduced(i) == IF i >= 0 THEN Lit(i) ELSE Neg(0 - i)

\* the integer of small magnitude a literal or wrapped Field stands for
Signed(f) == IF IsLit(f) THEN f[2] ELSE 0 - f[2]

fr_add(a, b) ==
    IF a = Zero THEN b
    ELSE IF b = Zero THEN a
    ELSE IF IsLit(a) /\ IsLit(b) THEN Lit(a[2] + b[2])
    ELSE IF (IsLit(a) \/ IsNeg(a)) /\ (IsLit(b) \/ IsNeg(b))
         THEN Reduced(Signed(a) + Signed(b))
    ELSE <<2>> \o a \o b

fr_sub(a, b) ==
    IF b = Zero THEN a
    ELSE IF (IsLit(a) \/ IsNeg(a)) /\ (IsLit(b) \/ IsNeg(b))
         THEN Reduced(Signed(a) - Signed(b))
    ELSE <<5>> \o a \o b

from_bytes(bytes) == bytes

\* two_pow_64 * Field::from(n)
two_pow_64_times(n) == IF n = 0 THEN Zero ELSE <<3, n>>

to_bytes(f) == f

(***************************************************************************)
(* poseidon2.rs                                                            *)
(***************************************************************************)
LEAF_SPEND_TAG == 11
LEAF_MERGE_TAG == 12
BATCH_TAG == 20
MANIFEST_TAG == 40
RATE == 3

permute4(state) ==
    LET out(s) == << <<1, 1>> \o s, <<1, 2>> \o s, <<1, 3>> \o s, <<1, 4>> \o s >>
    IN  CHOOSE o \in { out(v[1] \o v[2] \o v[3] \o v[4]) : v \in {state} } : TRUE

\* state[j] += cache[j] for the first n slots of the rate part
add_cache(state, cache, n) ==
    << IF 1 <= n THEN fr_add(state[1], cache[1]) ELSE state[1],
       IF 2 <= n THEN fr_add(state[2], cache[2]) ELSE state[2],
       IF RATE <= n THEN fr_add(state[RATE], cache[RATE]) ELSE state[RATE],
       state[4] >>

\* Mutant of absorb: the cache is added and permuted as soon as it is full,
\* so a full last block is followed by one more permutation of an empty one.
RECURSIVE absorb_eager(_, _, _, _, _)
absorb_eager(inputs, k, state, cache, cache_size) ==
    IF k > Len(inputs)
    THEN [state |-> state, cache |-> cache, cache_size |-> cache_size, permutes |-> 0]
    ELSE IF cache_size + 1 = RATE
         THEN LET r == absorb_eager(inputs, k + 1,
                           permute4(add_cache(state,
                               [cache EXCEPT ![RATE] = inputs[k]], RATE)),
                           <<Zero, Zero, Zero>>, 0)
              IN  [r EXCEPT !.permutes = @ + 1]
         ELSE absorb_eager(inputs, k + 1, state,
                           [cache EXCEPT ![cache_size + 1] = inputs[k]],
                           cache_size + 1)

\* The loop `for &f in inputs` from input k on.  The field permutes counts
\* the calls of permute4 the loop makes.
RECURSIVE absorb(_, _, _, _, _)
absorb(inputs, k, state, cache, cache_size) ==
    IF k > Len(inputs)
    THEN [state |-> state, cache |-> cache, cache_size |-> cache_size, permutes |-> 0]
    ELSE IF cache_size = RATE
         THEN CHOOSE r \in
                  { [a EXCEPT !.permutes = @ + 1] :
                      a \in { absorb(inputs, k + 1, st, <<inputs[k], Zero, Zero>>, 1) :
                                 st \in {permute4(add_cache(state, cache, RATE))} } } : TRUE
         ELSE CHOOSE r \in
                  { absorb(inputs, k + 1, state, c, n) :
                      c \in {[cache EXCEPT ![cache_size + 1] = inputs[k]]},
                      n \in {cache_size + 1} } : TRUE

hash_fields(inputs) ==
    LET iv(xs)     == two_pow_64_times(Len(xs))
        sponge(xs) == absorb(xs, 1, <<Zero, Zero, Zero, iv(xs)>>, <<Zero, Zero, Zero>>, 0)
        squeeze(r) == permute4(add_cache(r.state, r.cache, r.cache_size))[1]
    IN  CHOOSE h \in { squeeze(r) : r \in { sponge(xs) : xs \in {inputs} } } : TRUE

\* The number of calls of permute4 in hash_fields(inputs): those of the loop
\* and the one after it.
hash_fields_permutes(inputs) ==
    absorb(inputs, 1, <<Zero, Zero, Zero, two_pow_64_times(Len(inputs))>>,
           <<Zero, Zero, Zero>>, 0).permutes + 1

hash10(xs) == hash_fields(xs)

\* The array h2 hands to hash_fields.
h2_fields(left, right) == <<Lit(BATCH_TAG), left, right>>

h2(left, right) == hash_fields(h2_fields(left, right))

\* Mutant of hash_spend_leaf_fields: the spend leaf carries the tag of the
\* spend digest.
hash_spend_leaf_fields_tag_one(in_commit, out_commit0, out_commit1, transfer_token, transfer_amount, fee_amount) ==
    <<Lit(1), in_commit, out_commit0, out_commit1,
      transfer_token, transfer_amount, fee_amount>>

\* The array hash_spend_leaf hands to hash_fields.
hash_spend_leaf_fields(in_commit, out_commit0, out_commit1, transfer_token, transfer_amount, fee_amount) ==
    <<Lit(LEAF_SPEND_TAG), in_commit, out_commit0, out_commit1,
      transfer_token, transfer_amount, fee_amount>>

hash_spend_leaf(in_commit, out_commit0, out_commit1, transfer_token, transfer_amount, fee_amount) ==
    hash_fields(hash_spend_leaf_fields(in_commit, out_commit0, out_commit1,
                                       transfer_token, transfer_amount, fee_amount))

\* The array hash_merge_leaf hands to hash_fields.
hash_merge_leaf_fields(in_commit0, in_commit1, out_commit) ==
    <<Lit(LEAF_MERGE_TAG), in_commit0, in_commit1, out_commit>>

hash_merge_leaf(in_commit0, in_commit1, out_commit) ==
    hash_fields(hash_merge_leaf_fields(in_commit0, in_commit1, out_commit))

\* The array hash_manifest hands to the outer hash_fields.
hash_manifest_fields(block_id, acceptance_root, leaf_hashes_in_order) ==
    <<Lit(MANIFEST_TAG), Lit(block_id), acceptance_root,
      Lit(Len(leaf_hashes_in_order)), hash_fields(leaf_hashes_in_order)>>

\* Mutant of hash_manifest: the length is left out and the leaf hashes are
\* added up before they are hashed.
hash_manifest_unordered(block_id, acceptance_root, leaf_hashes_in_order) ==
    LET RECURSIVE sum(_)
        sum(k) == IF k = 0 THEN Zero
                  ELSE fr_add(sum(k - 1), leaf_hashes_in_order[k])
    IN  hash_fields(<<Lit(MANIFEST_TAG), Lit(block_id), acceptance_root,
                      hash_fields(<<sum(Len(leaf_hashes_in_order))>>)>>)

hash_manifest(block_id, acceptance_root, leaf_hashes_in_order) ==
    hash_fields(hash_manifest_fields(block_id, acceptance_root, leaf_hashes_in_order))

(***************************************************************************)
(* Orderings (std::cmp::Ordering, Ord for u64 and for byte arrays)         *)
(***************************************************************************)
cmp_int(a, b) == IF a < b THEN "Less" ELSE IF a > b THEN "Greater" ELSE "Equal"

then_with(o1, o2) == IF o1 = "Equal" THEN o2 ELSE o1

\* Ord for byte arrays: lexicographic, decided at the first differing place.
RECURSIVE bytes_cmp_from(_, _, _)
bytes_cmp_from(a, b, i) ==
    IF i > Len(a) \/ i > Len(b) THEN cmp_int(Len(a), Len(b))
    ELSE IF a[i] # b[i] THEN cmp_int(a[i], b[i])
    ELSE bytes_cmp_from(a, b, i + 1)

bytes_cmp(a, b) == IF a = b THEN "Equal" ELSE bytes_cmp_from(a, b, 1)

field_cmp(a, b) == bytes_cmp(to_bytes(a), to_bytes(b))

\* ffi::fr_cmp: the order of the values; a wrapped value is above every
\* literal, and modulus - m is below modulus - n when m > n.
fr_cmp(a, b) ==
    IF IsLit(a) /\ IsLit(b) THEN cmp_int(a[2], b[2])
    ELSE IF IsLit(a) /\ IsNeg(b) THEN "Less"
    ELSE IF IsNeg(a) /\ IsLit(b) THEN "Greater"
    ELSE IF IsNeg(a) /\ IsNeg(b) THEN cmp_int(b[2], a[2])
    ELSE field_cmp(a, b)

\* PartialOrd for Field: a >= b
fr_ge(a, b) == fr_cmp(a, b) # "Less"

\* slice::sort_by, given the comparator's answers ord[i, j] on the elements
\* v[i], v[j].  The sort is stable, so an element's place is the number of
\* elements that compare Less, plus the Equal ones that came before it.
sort_by(v, ord) ==
    LET n    == Len(v)
        rank == [i \in 1..n |->
                    Cardinality({j \in 1..n :
                        \/ ord[j, i] = "Less"
                        \/ ord[j, i] = "Equal" /\ j < i}) + 1]
    IN  <<>> \o [p \in 1..n |-> v[CHOOSE i \in 1..n : rank[i] = p]]

(***************************************************************************)
(* batch.rs                                                                *)
(***************************************************************************)
None == <<>>

Some(x) == <<x>>

BindingLeaf(leaf_id, leaf_hash) == [leaf_id |-> leaf_id, leaf_hash |-> leaf_hash]

\* Mutant of plan_block: the odd tail is dropped instead of deferred.
plan_block_drops_tail(block_id, acceptance_root, leaves) ==
    [block_id        |-> block_id,
     acceptance_root |-> acceptance_root,
     leaves          |-> SubSeq(leaves, 1, Len(leaves) - (Len(leaves) % 2)),
     deferred        |-> None]

\* Mutant of plan_block: the first leaf of an odd list is deferred.
plan_block_defers_first(block_id, acceptance_root, leaves) ==
    LET n   == Len(leaves)
        odd == n % 2 = 1
    IN  [block_id        |-> block_id,
         acceptance_root |-> acceptance_root,
         leaves          |-> IF odd THEN SubSeq(leaves, 2, n) ELSE leaves,
         deferred        |-> IF odd THEN Some(leaves[1]) ELSE None]

plan_block(block_id, acceptance_root, leaves) ==
    LET n   == Len(leaves)
        odd == n % 2 = 1
    IN  [block_id        |-> block_id,
         acceptance_root |-> acceptance_root,
         leaves          |-> IF odd THEN SubSeq(leaves, 1, n - 1) ELSE leaves,
         deferred        |-> IF odd THEN Some(leaves[n]) ELSE None]

\* Mutant of cmp_candidate_leaf: the publisher tie-break is left out.
cmp_candidate_leaf_no_publisher(a, b) ==
    then_with(cmp_int(a.arrival_time_ns, b.arrival_time_ns),
              field_cmp(a.leaf_hash, b.leaf_hash))

\* The comparator of plan_block_from_candidates (CandidateLeaf.leaf_hash is
\* the candidate's declared hash).
cmp_candidate_leaf(a, b) ==
    then_with(then_with(cmp_int(a.arrival_time_ns, b.arrival_time_ns),
                        field_cmp(a.leaf_hash, b.leaf_hash)),
              cmp_int(a.publisher_id, b.publisher_id))

plan_block_from_candidates(block_id, acceptance_root, candidates) ==
    LET s      == sort_by(candidates, [i, j \in 1..Len(candidates) |->
                           cmp_candidate_leaf(candidates[i], candidates[j])])
        leaves == <<>> \o [k \in 1..Len(s) |->
                               BindingLeaf(s[k].leaf_id, s[k].leaf_hash)]
    IN  plan_block(block_id, acceptance_root, leaves)

Spend(in_commit, out_commit0, out_commit1, transfer_token, transfer_amount, fee_amount) ==
    [kind |-> "Spend", in_commit |-> in_commit, out_commit0 |-> out_commit0,
     out_commit1 |-> out_commit1, transfer_token |-> transfer_token,
     transfer_amount |-> transfer_amount, fee_amount |-> fee_amount]

Merge(in_commit0, in_commit1, out_commit) ==
    [kind |-> "Merge", in_commit0 |-> in_commit0, in_commit1 |-> in_commit1,
     out_commit |-> out_commit]

recompute_leaf_hash(record) ==
    IF record.kind = "Spend"
    THEN hash_spend_leaf(record.in_commit, record.out_commit0,
                         record.out_commit1, record.transfer_token,
                         record.transfer_amount, record.fee_amount)
    ELSE hash_merge_leaf(record.in_commit0, record.in_commit1, record.out_commit)

outputs(record) ==
    IF record.kind = "Spend" THEN <<record.out_commit0, record.out_commit1>>
    ELSE <<record.out_commit>>

inputs(record) ==
    IF record.kind = "Spend" THEN <<record.in_commit>>
    ELSE <<record.in_commit0, record.in_commit1>>

\* The membership oracle is a predicate on Fields: here, a set of them.
membership_exists(oracle, f) == f \in oracle

\* Mutants of inputs_ok: the consumed check left out; the record's own
\* outputs counted as produced; the outputs of earlier leaves not counted.
inputs_ok_no_consumed(record, oracle, produced, consumed) ==
    \A k \in 1..Len(inputs(record)) :
        LET inp == inputs(record)[k]
        IN  membership_exists(oracle, inp) \/ to_bytes(inp) \in produced

inputs_ok_own_outputs(record, oracle, produced, consumed) ==
    \A k \in 1..Len(inputs(record)) :
        LET inp  == inputs(record)[k]
            key  == to_bytes(inp)
            prev == \/ membership_exists(oracle, inp)
                    \/ key \in produced
                    \/ \E o \in 1..Len(outputs(record)) :
                           key = to_bytes(outputs(record)[o])
        IN  ~(~prev \/ key \in consumed)

inputs_ok_membership_only(record, oracle, produced, consumed) ==
    \A k \in 1..Len(inputs(record)) :
        LET inp == inputs(record)[k]
        IN  membership_exists(oracle, inp) /\ to_bytes(inp) \notin consumed

inputs_ok(record, oracle, produced, consumed) ==
    \A k \in 1..Len(inputs(record)) :
        LET inp  == inputs(record)[k]
            key  == to_bytes(inp)
            prev == membership_exists(oracle, inp) \/ key \in produced
        IN  ~(~prev \/ key \in consumed)

\* Mutant of hash_matches: the declared hash is not checked.
hash_matches_unchecked(cand) == TRUE

hash_matches(cand) == recompute_leaf_hash(cand.record) = cand.declared_leaf_hash

\* Mutant of loop_body: every input is marked consumed as soon as it is
\* checked, so a candidate rejected at its second input keeps its first.
loop_body_partial(st, cand, oracle) ==
    LET ins    == inputs(cand.record)
        ok(k)  == (membership_exists(oracle, ins[k]) \/ to_bytes(ins[k]) \in st.produced)
                  /\ to_bytes(ins[k]) \notin st.consumed
        passed == {k \in 1..Len(ins) : \A j \in 1..k : ok(j)}
        marked == st.consumed \cup {to_bytes(ins[k]) : k \in passed}
    IN  IF recompute_leaf_hash(cand.record) # cand.declared_leaf_hash THEN st
        ELSE IF passed # 1..Len(ins) THEN [st EXCEPT !.consumed = marked]
        ELSE [produced |-> st.produced \cup
                             {to_bytes(outputs(cand.record)[k]) :
                                  k \in 1..Len(outputs(cand.record))},
              consumed |-> marked,
              leaves   |-> Append(st.leaves,
                                  BindingLeaf(cand.leaf_id, cand.declared_leaf_hash))]

\* One turn of the loop of validate_and_plan_block.
loop_body(st, cand, oracle) ==
    IF ~hash_matches(cand) THEN st
    ELSE IF ~inputs_ok(cand.record, oracle, st.produced, st.consumed) THEN st
    ELSE [produced |-> st.produced \cup
                         {to_bytes(outputs(cand.record)[k]) :
                              k \in 1..Len(outputs(cand.record))},
          consumed |-> st.consumed \cup
                         {to_bytes(inputs(cand.record)[k]) :
                              k \in 1..Len(inputs(cand.record))},
          leaves   |-> Append(st.leaves,
                              BindingLeaf(cand.leaf_id, cand.declared_leaf_hash))]

cmp_candidate_with_record(a, b) ==
    then_with(then_with(cmp_int(a.arrival_time_ns, b.arrival_time_ns),
                        field_cmp(a.declared_leaf_hash, b.declared_leaf_hash)),
              cmp_int(a.publisher_id, b.publisher_id))

\* The loop states: loop_states(s, oracle)[k] is the state before the turn of
\* s[k], the last one the state after the loop.
RECURSIVE loop_states(_, _)
loop_states(s, oracle) ==
    IF s = <<>>
    THEN <<[produced |-> {}, consumed |-> {}, leaves |-> <<>>]>>
    ELSE LET before == loop_states(SubSeq(s, 1, Len(s) - 1), oracle)
         IN  Append(before, loop_body(before[Len(before)], s[Len(s)], oracle))

\* validate_and_plan_block with its intermediate values kept: the sorted
\* list, the loop states and the block returned.
validate_run(block_id, acceptance_root, candidates, oracle) ==
    LET s  == sort_by(candidates, [i, j \in 1..Len(candidates) |->
                           cmp_candidate_with_record(candidates[i], candidates[j])])
        st == loop_states(s, oracle)
    IN  [sorted |-> s, trace |-> st,
         block  |-> plan_block(block_id, acceptance_root, st[Len(st)].leaves)]

validate_and_plan_block(block_id, acceptance_root, candidates, oracle) ==
    validate_run(block_id, acceptance_root, candidates, oracle).block

\* Mutant of chunks_exact2: slice::chunks(2), which yields the remainder too.
chunks2(level) ==
    [j \in 1..((Len(level) + 1) \div 2) |->
        SubSeq(level, 2 * j - 1, IF 2 * j <= Len(level) THEN 2 * j ELSE Len(level))]

\* slice::chunks_exact(2): the full chunks only, a remainder is left out.
chunks_exact2(level) ==
    [j \in 1..(Len(level) \div 2) |-> SubSeq(level, 2 * j - 1, 2 * j)]

\* The folding loop; bad records that a chunk did not match [l, r].
RECURSIVE fold_levels(_)
fold_levels(level) ==
    IF Len(level) <= 1
    THEN [bad |-> FALSE, level |-> level]
    ELSE LET ch == chunks_exact2(level)
         IN  IF \E j \in 1..Len(ch) : Len(ch[j]) # 2
             THEN [bad |-> TRUE, level |-> level]
             ELSE fold_levels([j \in 1..Len(ch) |-> h2(ch[j][1], ch[j][2])])

canonical_root_even(hs) ==
    IF hs = <<>> \/ Len(hs) % 2 = 1 THEN None
    ELSE LET r == fold_levels(hs)
         IN  IF r.bad \/ r.level = <<>> THEN None ELSE Some(r.level[1])

canonical_root_even_fallback(hs) ==
    ~(hs = <<>> \/ Len(hs) % 2 = 1) /\ fold_levels(hs).bad

\* self.leaves.iter().map(|l| l.leaf_hash).collect()
leaf_hashes(leaves) == <<>> \o [k \in 1..Len(leaves) |-> leaves[k].leaf_hash]

\* Mutant of manifest_hash: the deferred leaf is hashed with the others.
manifest_hash_with_deferred(b) ==
    hash_manifest(b.block_id, b.acceptance_root, leaf_hashes(b.leaves \o b.deferred))

\* BindingBlock::manifest_hash
manifest_hash(b) ==
    hash_manifest(b.block_id, b.acceptance_root, leaf_hashes(b.leaves))

\* BindingBlock::canonical_root_even
BindingBlock_canonical_root_even(b) == canonical_root_even(leaf_hashes(b.leaves))

(***************************************************************************)
(* types.rs, keys.rs                                                       *)
(***************************************************************************)
MAX_ASSETS == 4

Asset(token, amount) == [token |-> token, amount |-> amount]

Utxo(assets, recipient_pk_x, salt) ==
    [assets |-> assets, recipient_pk_x |-> recipient_pk_x, salt |-> salt]

\* Utxo::commitment
\* The array Utxo::commitment hands to hash10.
commitment_fields(u) ==
    <<u.recipient_pk_x,
      u.assets[1].token, u.assets[1].amount,
      u.assets[2].token, u.assets[2].amount,
      u.assets[3].token, u.assets[3].amount,
      u.assets[4].token, u.assets[4].amount,
      u.salt>>

commitment(u) == hash10(commitment_fields(u))

\* The array the spend digest is the hash of (prove_spend, spend_commitments).
spend_digest_fields(sender_pk_x, transfer_token, transfer_amount, fee_amount, receiver_commit, remainder_commit) ==
    <<Lit(1), sender_pk_x, transfer_token, transfer_amount, fee_amount,
      receiver_commit, remainder_commit>>

\* The array the merge digest is the hash of (prove_merge, merge_commitment).
merge_digest_fields(sender_pk_x, out_commit) ==
    <<Lit(2), sender_pk_x, out_commit, Zero, Zero, Zero>>

SchnorrPublicKey(pk_x, pk_y) == [pk_x |-> pk_x, pk_y |-> pk_y]

pk_x_bytes(pk) == pk.pk_x

pk_y_bytes(pk) == pk.pk_y

pk_x_field(pk) == from_bytes(pk.pk_x)

\* SpendInput and MergeInput
TxInput(utxo, signer) == [utxo |-> utxo, signer |-> signer]

Keypair(sk, pk_x, pk_y) == [sk |-> sk, pk_x |-> pk_x, pk_y |-> pk_y]

public_key_xy(kp) == <<kp.pk_x, kp.pk_y>>

\* The signature is the backend's: a value determined by key and message.
sign_prehash(kp, msg32) == [sk |-> kp.sk, msg32 |-> msg32]

\* Mutant of SpendTx_leaf_hash: the commitments of the reconstructed outputs
\* are hashed, remainder first.
SpendTx_leaf_hash_swapped(tx) ==
    hash_spend_leaf(commitment(tx.input.utxo),
                    tx.expected_out_commits[2], tx.expected_out_commits[1],
                    tx.transfer_token, tx.transfer_amount, tx.fee_amount)

\* SpendTx::leaf_hash
SpendTx_leaf_hash(tx) ==
    hash_spend_leaf(commitment(tx.input.utxo),
                    tx.expected_out_commits[1], tx.expected_out_commits[2],
                    tx.transfer_token, tx.transfer_amount, tx.fee_amount)

\* MergeTx::leaf_hash
MergeTx_leaf_hash(tx) ==
    hash_merge_leaf(commitment(tx.inputs[1].utxo), commitment(tx.inputs[2].utxo),
                    tx.expected_out_commit)

\* BindingLeaf::from_spend, BindingLeaf::from_merge
from_spend(leaf_id, tx) == BindingLeaf(leaf_id, SpendTx_leaf_hash(tx))

from_merge(leaf_id, tx) == BindingLeaf(leaf_id, MergeTx_leaf_hash(tx))

(***************************************************************************)
(* tx.rs.  anyhow::Result is a record: ok tells Ok from Err, val is the    *)
(* value or the error message.  Array slots are counted from 0 as in the   *)
(* source; slot i of an array a is a[i + 1].                               *)
(***************************************************************************)
Ok(v) == [ok |-> TRUE, val |-> v]

Err(m) == [ok |-> FALSE, val |-> m]

SPEND_CIRCUIT == "utxo_spend"

MERGE_CIRCUIT == "utxo_merge"

\* A call of the EnsureUniqueFn.  The callback is the caller's: it is given
\* by the commitments it fails on and those it reports as colliding, or it
\* reports a collision on every call.
check_fn(oracle, commits) ==
    IF \E k \in 1..Len(commits) : commits[k] \in oracle.fail
    THEN Err("ensure_unique failed")
    ELSE Ok(oracle.always \/ \E k \in 1..Len(commits) : commits[k] \in oracle.collide)

\* Mutant of spend_check_signer: the recipient key of the input is not checked.
spend_check_signer_no_recipient(req) ==
    LET xy == public_key_xy(req.signer)
    IN  IF ~(xy[1] = pk_x_bytes(req.input.signer) /\ xy[2] = pk_y_bytes(req.input.signer))
        THEN Err("signer keypair does not match spend input public key")
        ELSE Ok(<<>>)

\* prove_spend: the two anyhow::ensure! on the keys
spend_check_signer(req) ==
    LET xy == public_key_xy(req.signer)
    IN  IF ~(xy[1] = pk_x_bytes(req.input.signer) /\ xy[2] = pk_y_bytes(req.input.signer))
        THEN Err("signer keypair does not match spend input public key")
        ELSE IF req.input.utxo.recipient_pk_x # pk_x_field(req.input.signer)
        THEN Err("spend input utxo recipient key does not match signer key")
        ELSE Ok(<<>>)

\* Mutant of locate_transfer_slot: the first matching slot is taken.
RECURSIVE locate_transfer_slot_first(_, _, _, _)
locate_transfer_slot_first(in_tokens, transfer_token, idx, transfer_slot) ==
    IF idx = MAX_ASSETS
    THEN IF transfer_slot = None
         THEN Err("transfer token not present in input UTXO")
         ELSE Ok(transfer_slot[1])
    ELSE IF in_tokens[idx + 1] = transfer_token /\ transfer_slot = None
         THEN locate_transfer_slot_first(in_tokens, transfer_token, idx + 1, Some(idx))
         ELSE locate_transfer_slot_first(in_tokens, transfer_token, idx + 1, transfer_slot)

\* prove_spend: the loop over in_tokens from slot idx on, and the ok_or_else
RECURSIVE locate_transfer_slot(_, _, _, _)
locate_transfer_slot(in_tokens, transfer_token, idx, transfer_slot) ==
    IF idx = MAX_ASSETS
    THEN IF transfer_slot = None
         THEN Err("transfer token not present in input UTXO")
         ELSE Ok(transfer_slot[1])
    ELSE IF in_tokens[idx + 1] = transfer_token
         THEN IF transfer_slot # None
              THEN Err("duplicate transfer token slots detected")
              ELSE locate_transfer_slot(in_tokens, transfer_token, idx + 1, Some(idx))
         ELSE locate_transfer_slot(in_tokens, transfer_token, idx + 1, transfer_slot)

\* Mutant of remainder_amounts: the fee is always taken from the transfer slot.
remainder_amounts_fee_in_slot(transfer_slot, in_amounts, transfer_amount, fee_amount) ==
    IF ~fr_ge(in_amounts[transfer_slot + 1], fr_add(transfer_amount, fee_amount))
    THEN Err("insufficient funds for transfer and fee")
    ELSE Ok([in_amounts EXCEPT ![transfer_slot + 1] =
                 fr_sub(fr_sub(in_amounts[transfer_slot + 1], transfer_amount),
                        fee_amount)])

\* prove_spend: remainder_amounts, from `let mut remainder_amounts` on
remainder_amounts(transfer_slot, in_amounts, transfer_amount, fee_amount) ==
    IF transfer_slot = 0
    THEN IF ~fr_ge(in_amounts[1], fr_add(transfer_amount, fee_amount))
         THEN Err("insufficient funds for transfer and fee")
         ELSE Ok([in_amounts EXCEPT ![1] =
                      fr_sub(fr_sub(in_amounts[1], transfer_amount), fee_amount)])
    ELSE IF ~fr_ge(in_amounts[transfer_slot + 1], transfer_amount)
         THEN Err("insufficient funds for transfer")
         ELSE IF ~fr_ge(in_amounts[1], fee_amount)
         THEN Err("insufficient funds to pay fee from slot 0")
         ELSE Ok([in_amounts EXCEPT
                      ![transfer_slot + 1] = fr_sub(in_amounts[transfer_slot + 1],
                                                    transfer_amount),
                      ![1] = fr_sub(in_amounts[1], fee_amount)])

\* prove_spend from the key checks to the remainder amounts: the error it
\* returns, or the locals the loop works with.
prove_spend_setup(req) ==
    LET in_tokens  == <<>> \o [i \in 1..MAX_ASSETS |-> req.input.utxo.assets[i].token]
        in_amounts == <<>> \o [i \in 1..MAX_ASSETS |-> req.input.utxo.assets[i].amount]
        keys       == spend_check_signer(req)
        slot       == locate_transfer_slot(in_tokens, req.transfer_token, 0, None)
        rem        == remainder_amounts(slot.val, in_amounts,
                                        req.transfer_amount, req.fee_amount)
    IN  IF ~keys.ok THEN keys
        ELSE IF ~slot.ok THEN slot
        ELSE IF ~rem.ok THEN rem
        ELSE Ok([in_tokens         |-> in_tokens,
                 in_amounts        |-> in_amounts,
                 in_salt           |-> req.input.utxo.salt,
                 transfer_slot     |-> slot.val,
                 receiver_tokens   |-> <<>> \o [i \in 1..MAX_ASSETS |->
                                          IF i = slot.val + 1 THEN req.transfer_token
                                          ELSE Zero],
                 receiver_amounts  |-> <<>> \o [i \in 1..MAX_ASSETS |->
                                          IF i = slot.val + 1 THEN req.transfer_amount
                                          ELSE Zero],
                 remainder_tokens  |-> in_tokens,
                 remainder_amounts |-> rem.val])

assets_of(tokens, amounts) ==
    <<>> \o [i \in 1..MAX_ASSETS |-> Asset(tokens[i], amounts[i])]

\* The SpendInputs the loop of prove_spend packs.
SpendInputs(req, loc, receiver_salt, remainder_salt) ==
    [sender_pkx_be     |-> pk_x_bytes(req.input.signer),
     sender_pky_be     |-> pk_y_bytes(req.input.signer),
     recipient_pkx_be  |-> req.recipient_pk_x,
     in_tokens         |-> loc.in_tokens,
     in_amounts        |-> loc.in_amounts,
     in_salt           |-> loc.in_salt,
     transfer_token    |-> req.transfer_token,
     transfer_amount   |-> req.transfer_amount,
     fee_amount        |-> req.fee_amount,
     receiver_tokens   |-> loc.receiver_tokens,
     receiver_amounts  |-> loc.receiver_amounts,
     receiver_salt     |-> receiver_salt,
     remainder_tokens  |-> loc.remainder_tokens,
     remainder_amounts |-> loc.remainder_amounts,
     remainder_salt    |-> remainder_salt]

\* The abi map keeps the entries that change from one turn of the loop to
\* the next; every Field of the model is below the modulus, so that
\* from_be_bytes_reduce leaves it as it is.
pack_spend_inputs(ins) ==
    LET receiver  == Utxo(assets_of(ins.receiver_tokens, ins.receiver_amounts),
                          from_bytes(ins.recipient_pkx_be), ins.receiver_salt)
        remainder == Utxo(assets_of(ins.remainder_tokens, ins.remainder_amounts),
                          from_bytes(ins.sender_pkx_be), ins.remainder_salt)
        receiver_commit  == commitment(receiver)
        remainder_commit == commitment(remainder)
        digest == hash_fields(spend_digest_fields(from_bytes(ins.sender_pkx_be),
                                ins.transfer_token, ins.transfer_amount,
                                ins.fee_amount, receiver_commit, remainder_commit))
    IN  [abi_inputs       |-> [msg32          |-> to_bytes(digest),
                               receiver_salt  |-> ins.receiver_salt,
                               remainder_salt |-> ins.remainder_salt],
         receiver_commit  |-> receiver_commit,
         remainder_commit |-> remainder_commit,
         digest           |-> digest,
         msg32            |-> to_bytes(digest)]

\* Mutant of spend_loop_turn: ensure_unique is not asked.
spend_loop_turn_unchecked(req, loc, receiver_salt, remainder_salt) ==
    [next |-> "break", err |-> <<>>,
     pack |-> pack_spend_inputs(SpendInputs(req, loc, receiver_salt, remainder_salt))]

\* One turn of the loop of prove_spend: continue, break with the pack, or
\* return the callback's error.
spend_loop_turn(req, loc, receiver_salt, remainder_salt) ==
    LET turn(pack) ==
            LET ans == check_fn(req.ensure_unique[1],
                                <<pack.receiver_commit, pack.remainder_commit>>)
            IN  IF req.ensure_unique # None /\ ~ans.ok
                THEN [next |-> "err", err |-> ans, pack |-> pack]
                ELSE IF req.ensure_unique # None /\ ans.val
                THEN [next |-> "continue", err |-> <<>>, pack |-> pack]
                ELSE [next |-> "break", err |-> <<>>, pack |-> pack]
    IN  CHOOSE t \in
            { turn(pack) : pack \in {pack_spend_inputs(
                  SpendInputs(req, loc, receiver_salt, remainder_salt))} } : TRUE

\* prove_spend after the loop, given what the backend answers to prove and
\* to verify.
prove_spend_finish(req, loc, receiver_salt, remainder_salt, pack, backend) ==
    LET signature      == sign_prehash(req.signer, pack.msg32)
        private_inputs == [abi |-> pack.abi_inputs, sig64 |-> signature]
        proof          == [circuit |-> SPEND_CIRCUIT, inputs |-> private_inputs]
        receiver_utxo  == Utxo(assets_of(loc.receiver_tokens, loc.receiver_amounts),
                               from_bytes(req.recipient_pk_x), receiver_salt)
        remainder_utxo == Utxo(assets_of(loc.remainder_tokens, loc.remainder_amounts),
                               from_bytes(public_key_xy(req.signer)[1]), remainder_salt)
    IN  IF backend = "prove fails" THEN Err("prove_with_all_inputs failed")
        ELSE IF req.verify_proof /\ backend = "verify fails"
        THEN Err("generated spend proof failed verification")
        ELSE Ok([input                |-> req.input,
                 outputs              |-> [kind |-> "Spend", receiver |-> receiver_utxo,
                                           remainder |-> remainder_utxo],
                 expected_out_commits |-> <<pack.receiver_commit, pack.remainder_commit>>,
                 proof                |-> proof,
                 transfer_token       |-> req.transfer_token,
                 transfer_amount      |-> req.transfer_amount,
                 fee_amount           |-> req.fee_amount,
                 signature            |-> signature,
                 msg32                |-> pack.msg32,
                 digest               |-> pack.digest])

\* Mutant of merge_check_signer: the second input is not checked.
merge_check_signer_first_only(req) ==
    LET xy == public_key_xy(req.signer)
        s0 == req.inputs[1].signer
    IN  IF ~(xy[1] = pk_x_bytes(s0) /\ xy[2] = pk_y_bytes(s0))
        THEN Err("signer keypair does not match merge input[0] public key")
        ELSE IF ~(req.inputs[1].utxo.recipient_pk_x = pk_x_field(s0))
        THEN Err("merge input utxo recipient key does not match signer key")
        ELSE Ok(<<>>)

\* prove_merge: the four anyhow::ensure! on the keys
merge_check_signer(req) ==
    LET xy == public_key_xy(req.signer)
        s0 == req.inputs[1].signer
        s1 == req.inputs[2].signer
    IN  IF ~(xy[1] = pk_x_bytes(s0) /\ xy[2] = pk_y_bytes(s0))
        THEN Err("signer keypair does not match merge input[0] public key")
        ELSE IF ~(xy[1] = pk_x_bytes(s1) /\ xy[2] = pk_y_bytes(s1))
        THEN Err("signer keypair does not match merge input[1] public key")
        ELSE IF ~(pk_x_bytes(s0) = pk_x_bytes(s1) /\ pk_y_bytes(s0) = pk_y_bytes(s1))
        THEN Err("merge inputs must share the same signer")
        ELSE IF ~(/\ req.inputs[1].utxo.recipient_pk_x = pk_x_field(s0)
                  /\ req.inputs[2].utxo.recipient_pk_x = pk_x_field(s1))
        THEN Err("merge input utxo recipient key does not match signer key")
        ELSE Ok(<<>>)

\* Mutant of MergeInputs: the output is packed with a salt of the builder's
\* own, whatever salt the loop holds.
MergeInputs_own_salt(req, output_salt) ==
    [sender_pkx_be |-> pk_x_bytes(req.inputs[1].signer),
     sender_pky_be |-> pk_y_bytes(req.inputs[1].signer),
     in0_tokens    |-> <<>> \o [i \in 1..MAX_ASSETS |-> req.inputs[1].utxo.assets[i].token],
     in0_amounts   |-> <<>> \o [i \in 1..MAX_ASSETS |-> req.inputs[1].utxo.assets[i].amount],
     in0_salt      |-> req.inputs[1].utxo.salt,
     in1_tokens    |-> <<>> \o [i \in 1..MAX_ASSETS |-> req.inputs[2].utxo.assets[i].token],
     in1_amounts   |-> <<>> \o [i \in 1..MAX_ASSETS |-> req.inputs[2].utxo.assets[i].amount],
     in1_salt      |-> req.inputs[2].utxo.salt,
     out_tokens    |-> req.out_tokens,
     out_amounts   |-> req.out_amounts,
     out_salt      |-> Lit(2)]

\* The MergeInputs the loop of prove_merge packs.
MergeInputs(req, output_salt) ==
    [sender_pkx_be |-> pk_x_bytes(req.inputs[1].signer),
     sender_pky_be |-> pk_y_bytes(req.inputs[1].signer),
     in0_tokens    |-> <<>> \o [i \in 1..MAX_ASSETS |-> req.inputs[1].utxo.assets[i].token],
     in0_amounts   |-> <<>> \o [i \in 1..MAX_ASSETS |-> req.inputs[1].utxo.assets[i].amount],
     in0_salt      |-> req.inputs[1].utxo.salt,
     in1_tokens    |-> <<>> \o [i \in 1..MAX_ASSETS |-> req.inputs[2].utxo.assets[i].token],
     in1_amounts   |-> <<>> \o [i \in 1..MAX_ASSETS |-> req.inputs[2].utxo.assets[i].amount],
     in1_salt      |-> req.inputs[2].utxo.salt,
     out_tokens    |-> req.out_tokens,
     out_amounts   |-> req.out_amounts,
     out_salt      |-> output_salt]

pack_merge_inputs(ins) ==
    LET out_utxo   == Utxo(assets_of(ins.out_tokens, ins.out_amounts),
                           from_bytes(ins.sender_pkx_be), ins.out_salt)
        out_commit == commitment(out_utxo)
        digest     == hash_fields(merge_digest_fields(from_bytes(ins.sender_pkx_be),
                                                      out_commit))
    IN  [abi_inputs |-> [msg32 |-> to_bytes(digest), out_salt |-> ins.out_salt],
         out_commit |-> out_commit,
         digest     |-> digest,
         msg32      |-> to_bytes(digest)]

\* One turn of the loop of prove_merge.
merge_loop_turn(req, output_salt) ==
    LET turn(pack) ==
            LET ans == check_fn(req.ensure_unique[1], <<pack.out_commit>>)
            IN  IF req.ensure_unique # None /\ ~ans.ok
                THEN [next |-> "err", err |-> ans, pack |-> pack]
                ELSE IF req.ensure_unique # None /\ ans.val
                THEN [next |-> "continue", err |-> <<>>, pack |-> pack]
                ELSE [next |-> "break", err |-> <<>>, pack |-> pack]
    IN  CHOOSE t \in
            { turn(pack) : pack \in {pack_merge_inputs(MergeInputs(req, output_salt))} } : TRUE

\* prove_merge after the loop.
prove_merge_finish(req, output_salt, pack, backend) ==
    LET signature      == sign_prehash(req.signer, pack.msg32)
        private_inputs == [abi |-> pack.abi_inputs, sig64 |-> signature]
        proof          == [circuit |-> MERGE_CIRCUIT, inputs |-> private_inputs]
        merged_utxo    == Utxo(assets_of(req.out_tokens, req.out_amounts),
                               from_bytes(public_key_xy(req.signer)[1]), output_salt)
    IN  IF backend = "prove fails" THEN Err("prove_with_all_inputs failed")
        ELSE IF req.verify_proof /\ backend = "verify fails"
        THEN Err("generated merge proof failed verification")
        ELSE Ok([inputs              |-> req.inputs,
                 outputs             |-> [kind |-> "Merge", utxo |-> merged_utxo],
                 expected_out_commit |-> pack.out_commit,
                 proof               |-> proof,
                 signature           |-> signature,
                 msg32               |-> pack.msg32,
                 digest              |-> pack.digest])

(***************************************************************************)
(* Inputs                                                                  *)
(***************************************************************************)
BlockId == 7

AcceptanceRoot == Lit(100)

Commit(n) == Lit(n)

BadHash == Zero

\* Records over three commitments: a spend of 1 creating 2 and 3, a spend of
\* 3 that lists 3 among its own outputs, and a merge of 1 and 2.
RecordPool ==
    { Spend(Commit(1), Commit(2), Commit(3), Lit(5), Lit(40), Lit(2)),
      Spend(Commit(3), Commit(3), Commit(1), Lit(5), Lit(40), Lit(2)),
      Merge(Commit(1), Commit(2), Commit(3)) }

\* (arrival_time_ns, publisher_id)
KeyPool == { <<0, 0>>, <<0, 1>>, <<1, 0>> }

Candidate(leaf_id, key, record, declared) ==
    [leaf_id |-> leaf_id, arrival_time_ns |-> key[1], publisher_id |-> key[2],
     record |-> record, declared_leaf_hash |-> declared]

\* Candidates with the right declared hash under every key, and one with a
\* wrong declared hash per record.
CandidatePool ==
    { Candidate(0, k, r, recompute_leaf_hash(r)) : k \in KeyPool, r \in RecordPool }
    \cup { Candidate(0, <<0, 0>>, r, BadHash) : r \in RecordPool }

OraclePool == { {Commit(1)}, {Commit(1), Commit(2)} }

HashPool == { Lit(1), Lit(2), Lit(3) }

\* A CandidateLeaf is the candidate without its record.
as_candidate_leaf(c) ==
    [leaf_id |-> c.leaf_id, leaf_hash |-> c.declared_leaf_hash,
     arrival_time_ns |-> c.arrival_time_ns, publisher_id |-> c.publisher_id]

InitBatch ==
    /\ scenario = "batch"
    /\ \E n \in 0..MaxCands : \E f \in [1..n -> CandidatePool] :
           cands = [i \in 1..n |-> [f[i] EXCEPT !.leaf_id = i]]
    /\ membership \in OraclePool
    /\ hashes = <<>>

InitRoot ==
    /\ scenario = "root"
    /\ cands = <<>>
    /\ membership = {}
    /\ \E n \in 0..MaxHashes : hashes \in [1..n -> HashPool]

InitHashVars ==
    /\ hash_out = <<>>
    /\ permutes = 0

InitTxVars ==
    /\ request = <<>>
    /\ locals = <<>>
    /\ salts = <<>>
    /\ prepared = <<>>
    /\ result = <<>>
    /\ effects = {}
    /\ reported = {}

\* Nothing of the catalog is in use in the scenarios of the pure functions.
InitCatVars ==
    /\ CACHE = <<>>
    /\ cache_guard = 0
    /\ EMBEDDED_INIT = <<>>
    /\ CRS_INIT = FALSE
    /\ VK_REGISTRY = <<>>
    /\ BB_GUARD = 0
    /\ thread = <<>>
    /\ bb_calls = <<>>

Init ==
    /\ InitBatch \/ InitRoot
    /\ pc = "input"
    /\ op = "none"
    /\ sorted = <<>>
    /\ trace = <<>>
    /\ ordered = <<>>
    /\ block = <<>>
    /\ root = None
    /\ fallback = FALSE
    /\ InitHashVars
    /\ InitTxVars
    /\ InitCatVars

(***************************************************************************)
(* Operations: each applies one public function to the inputs.             *)
(***************************************************************************)
PlanBlock ==
    /\ pc = "input" /\ scenario = "batch"
    /\ LET leaves == [k \in 1..Len(cands) |->
                         BindingLeaf(cands[k].leaf_id, cands[k].declared_leaf_hash)]
       IN  /\ ordered' = leaves
           /\ block' = plan_block(BlockId, AcceptanceRoot, leaves)
    /\ op' = "plan_block"
    /\ pc' = "done"
    /\ UNCHANGED <<scenario, cands, membership, hashes, sorted, trace, root, fallback>>
    /\ UNCHANGED <<hashvars, txvars, catvars>>

PlanBlockFromCandidates ==
    /\ pc = "input" /\ scenario = "batch"
    /\ \E cl \in {<<>> \o [k \in 1..Len(cands) |-> as_candidate_leaf(cands[k])]} :
           /\ sorted' = sort_by(cl, [i, j \in 1..Len(cl) |->
                                        cmp_candidate_leaf(cl[i], cl[j])])
           /\ ordered' = <<>> \o [k \in 1..Len(cl) |->
                              BindingLeaf(sorted'[k].leaf_id, sorted'[k].leaf_hash)]
           /\ block' = plan_block_from_candidates(BlockId, AcceptanceRoot, cl)
    /\ op' = "plan_block_from_candidates"
    /\ pc' = "done"
    /\ UNCHANGED <<scenario, cands, membership, hashes, trace, root, fallback>>
    /\ UNCHANGED <<hashvars, txvars, catvars>>

ValidateAndPlanBlock ==
    /\ pc = "input" /\ scenario \in {"batch", "ledger"}
    /\ \E r \in {validate_run(BlockId, AcceptanceRoot, cands, membership)} :
           /\ sorted' = r.sorted
           /\ trace' = r.trace
           /\ ordered' = r.trace[Len(r.trace)].leaves
           /\ block' = r.block
    /\ op' = "validate_and_plan_block"
    /\ pc' = "done"
    /\ UNCHANGED <<scenario, cands, membership, hashes, root, fallback>>
    /\ UNCHANGED <<hashvars, txvars, catvars>>

CanonicalRootEven ==
    /\ pc = "input" /\ scenario = "root"
    /\ root' = canonical_root_even(hashes)
    /\ fallback' = canonical_root_even_fallback(hashes)
    /\ op' = "canonical_root_even"
    /\ pc' = "done"
    /\ UNCHANGED <<scenario, cands, membership, hashes, sorted, trace, ordered, block>>
    /\ UNCHANGED <<hashvars, txvars, catvars>>

Next ==
    \/ PlanBlock
    \/ PlanBlockFromCandidates
    \/ ValidateAndPlanBlock
    \/ CanonicalRootEven

Spec == Init /\ [][Next]_vars

(***************************************************************************)
(* validate_and_plan_block on candidates that chain on one another, repeat *)
(* an input within a record, or create a commitment that exists already.   *)
(* Every candidate declares the hash of its record; the candidates arrive  *)
(* in the order of the list or in the reverse order.                       *)
(***************************************************************************)
LedgerRecordPool ==
    { Spend(Commit(1), Commit(2), Commit(3), Lit(5), Lit(40), Lit(2)),
      Spend(Commit(3), Commit(4), Commit(2), Lit(5), Lit(40), Lit(2)),
      Merge(Commit(1), Commit(1), Commit(3)),
      Spend(Commit(2), Commit(5), Commit(5), Lit(5), Lit(40), Lit(2)),
      Spend(Commit(4), Commit(1), Commit(6), Lit(5), Lit(40), Lit(2)),
      Merge(Commit(2), Commit(4), Commit(6)) }

InitLedger ==
    /\ scenario = "ledger"
    /\ \E n \in 0..MaxCands : \E f \in [1..n -> LedgerRecordPool] :
       \E reversed \in BOOLEAN :
           cands = [i \in 1..n |->
                       Candidate(i, <<IF reversed THEN n - i ELSE i, 0>>, f[i],
                                 recompute_leaf_hash(f[i]))]
    /\ membership \in OraclePool
    /\ hashes = <<>>
    /\ pc = "input"
    /\ op = "none"
    /\ sorted = <<>>
    /\ trace = <<>>
    /\ ordered = <<>>
    /\ block = <<>>
    /\ root = None
    /\ fallback = FALSE
    /\ InitHashVars
    /\ InitTxVars
    /\ InitCatVars

SpecLedger == InitLedger /\ [][ValidateAndPlanBlock]_vars

(***************************************************************************)
(* The methods of BindingBlock, applied to blocks built field by field     *)
(* (the fields are public): any leaf list, with or without a deferred leaf.*)
(***************************************************************************)
LeafIdPool == { 1, 2 }

LeafHashPool == { Lit(1), Lit(2) }

LeafPool == { BindingLeaf(i, h) : i \in LeafIdPool, h \in LeafHashPool }

DeferredPool == { None } \cup { Some(l) : l \in LeafPool }

BlockIdPool == { BlockId, BlockId + 1 }

AcceptanceRootPool == { AcceptanceRoot, Lit(101) }

InitBlock ==
    /\ scenario = "block"
    /\ \E id \in BlockIdPool, ar \in AcceptanceRootPool, d \in DeferredPool :
       \E n \in 0..MaxLeaves : \E ls \in [1..n -> LeafPool] :
           block = [block_id |-> id, acceptance_root |-> ar,
                    leaves |-> <<>> \o ls, deferred |-> d]
    /\ cands = <<>>
    /\ membership = {}
    /\ hashes = <<>>
    /\ pc = "input"
    /\ op = "none"
    /\ sorted = <<>>
    /\ trace = <<>>
    /\ ordered = <<>>
    /\ root = None
    /\ fallback = FALSE
    /\ InitHashVars
    /\ InitTxVars
    /\ InitCatVars

ManifestHash ==
    /\ pc = "input" /\ scenario = "block"
    /\ hash_out' = manifest_hash(block)
    /\ permutes' = 0
    /\ op' = "manifest_hash"
    /\ pc' = "done"
    /\ UNCHANGED <<scenario, cands, membership, hashes, sorted, trace, ordered,
                   block, root, fallback, txvars, catvars>>

BlockCanonicalRootEven ==
    /\ pc = "input" /\ scenario = "block"
    /\ root' = BindingBlock_canonical_root_even(block)
    /\ fallback' = canonical_root_even_fallback(leaf_hashes(block.leaves))
    /\ op' = "BindingBlock::canonical_root_even"
    /\ pc' = "done"
    /\ UNCHANGED <<scenario, cands, membership, hashes, sorted, trace, ordered,
                   block, hashvars, txvars, catvars>>

NextBlock == ManifestHash \/ BlockCanonicalRootEven

SpecBlock == InitBlock /\ [][NextBlock]_vars

(***************************************************************************)
(* The hash functions of poseidon2.rs, applied to lists of Fields.         *)
(***************************************************************************)
InputPool == { Zero, Lit(1), Lit(2) }

InitHash ==
    /\ scenario = "hash"
    /\ \E n \in 0..MaxInputs : \E xs \in [1..n -> InputPool] : hashes = <<>> \o xs
    /\ cands = <<>>
    /\ membership = {}
    /\ pc = "input"
    /\ op = "none"
    /\ sorted = <<>>
    /\ trace = <<>>
    /\ ordered = <<>>
    /\ block = <<>>
    /\ root = None
    /\ fallback = FALSE
    /\ InitHashVars
    /\ InitTxVars
    /\ InitCatVars

HashFields ==
    /\ pc = "input" /\ scenario = "hash"
    /\ hash_out' = hash_fields(hashes)
    /\ permutes' = hash_fields_permutes(hashes)
    /\ op' = "hash_fields"
    /\ pc' = "done"
    /\ UNCHANGED <<scenario, cands, membership, hashes, sorted, trace, ordered,
                   block, root, fallback, txvars, catvars>>

HashManifest ==
    /\ pc = "input" /\ scenario = "hash"
    /\ hash_out' = hash_manifest(BlockId, AcceptanceRoot, hashes)
    /\ permutes' = 0
    /\ op' = "hash_manifest"
    /\ pc' = "done"
    /\ UNCHANGED <<scenario, cands, membership, hashes, sorted, trace, ordered,
                   block, root, fallback, txvars, catvars>>

NextHash == HashFields \/ HashManifest

SpecHash == InitHash /\ [][NextHash]_vars

(***************************************************************************)
(* Two calls of the functions that hash, one after the other; `trace`      *)
(* records which use handed which array to hash_fields.                    *)
(***************************************************************************)
MaxLeafHashes == 10

Tags == { Lit(1), Lit(2), Lit(LEAF_SPEND_TAG), Lit(LEAF_MERGE_TAG),
          Lit(BATCH_TAG), Lit(MANIFEST_TAG) }

DomainFieldPool == { Zero, Lit(1) }

DomainUtxoPool ==
    { Utxo(<<Asset(Zero, Zero), Asset(Zero, Zero), Asset(Zero, Zero), Asset(Zero, Zero)>>,
           pk, salt) : pk \in Tags \cup {Zero}, salt \in DomainFieldPool }

DomainCommitPool ==
    { commitment(Utxo(<<Asset(Zero, Zero), Asset(Zero, Zero), Asset(Zero, Zero),
                        Asset(Zero, Zero)>>, Zero, salt)) : salt \in DomainFieldPool }

\* Lists of leaf hashes of every length up to MaxLeafHashes.
LeafHashLists ==
    { [k \in 1..n |-> IF k = 1 THEN a ELSE IF k = n THEN b ELSE Zero] :
          n \in 0..MaxLeafHashes, a \in Tags \cup {Zero}, b \in DomainFieldPool }

Presented(use, fields) == [use |-> use, fields |-> fields]

Present(entries) ==
    /\ scenario = "domain" /\ pc \in {"input", "one"}
    /\ trace' = trace \o entries
    /\ pc' = IF pc = "input" THEN "one" ELSE "done"
    /\ UNCHANGED <<scenario, cands, membership, hashes, op, sorted, ordered,
                   block, root, fallback, hashvars, txvars, catvars>>

InitDomain ==
    /\ scenario = "domain"
    /\ hashes = <<>>
    /\ cands = <<>>
    /\ membership = {}
    /\ pc = "input"
    /\ op = "none"
    /\ sorted = <<>>
    /\ trace = <<>>
    /\ ordered = <<>>
    /\ block = <<>>
    /\ root = None
    /\ fallback = FALSE
    /\ InitHashVars
    /\ InitTxVars
    /\ InitCatVars

\* Utxo::commitment
UtxoCommitment ==
    \E u \in DomainUtxoPool : Present(<<Presented("hash10", commitment_fields(u))>>)

\* LeafRecord::leaf_hash of a spend: hash_spend_leaf
HashSpendLeaf ==
    \E a \in DomainFieldPool, amount, fee \in DomainCommitPool \cup {Zero} :
        Present(<<Presented("hash_spend_leaf",
                            hash_spend_leaf_fields(a, Zero, Zero, Zero, amount, fee))>>)

\* LeafRecord::leaf_hash of a merge: hash_merge_leaf
HashMergeLeaf ==
    \E a, b \in DomainFieldPool :
        Present(<<Presented("hash_merge_leaf", hash_merge_leaf_fields(a, Zero, b))>>)

H2 ==
    \E left, right \in DomainFieldPool :
        Present(<<Presented("h2", h2_fields(left, right))>>)

\* hash_manifest hashes the leaf hashes, then the tagged array
HashManifestTwice ==
    \E xs \in LeafHashLists :
        Present(<<Presented("leaves_digest", <<>> \o xs),
                  Presented("hash_manifest",
                            hash_manifest_fields(BlockId, AcceptanceRoot, <<>> \o xs))>>)

\* spend_commitments: the two commitments, then the digest
SpendCommitments ==
    \E pk \in DomainFieldPool :
    \E receiver, remainder \in { u \in DomainUtxoPool : u.recipient_pk_x = Zero } :
        Present(<<Presented("hash10", commitment_fields(receiver)),
                  Presented("hash10", commitment_fields(remainder)),
                  Presented("spend_digest",
                            spend_digest_fields(pk, Zero, Zero, Zero,
                                                commitment(receiver),
                                                commitment(remainder)))>>)

\* merge_commitment: the commitment, then the digest
MergeCommitment ==
    \E pk \in DomainFieldPool :
    \E out \in { u \in DomainUtxoPool : u.recipient_pk_x = Zero } :
        Present(<<Presented("hash10", commitment_fields(out)),
                  Presented("merge_digest", merge_digest_fields(pk, commitment(out)))>>)

NextDomain ==
    \/ UtxoCommitment
    \/ HashSpendLeaf
    \/ HashMergeLeaf
    \/ H2
    \/ HashManifestTwice
    \/ SpendCommitments
    \/ MergeCommitment

SpecDomain == InitDomain /\ [][NextDomain]_vars

(***************************************************************************)
(* prove_spend and prove_merge.  Salts are drawn from SaltPool; the        *)
(* backend's answers to prove and verify are drawn by the step that calls  *)
(* them.                                                                   *)
(***************************************************************************)
SaltPool == { Lit(s) : s \in 1..MaxSalt }

X1 == Lit(11)

X2 == Lit(12)

Y1 == Lit(21)

Y2 == Lit(22)

Signer == Keypair(1, X1, Y1)

PublicKeyPool ==
    { SchnorrPublicKey(X1, Y1), SchnorrPublicKey(X1, Y2), SchnorrPublicKey(X2, Y1) }

RecipientPool == { X1, X2 }

\* Input assets: token 5 alone in slot 0 with 100 and with 41; token 5 in
\* slot 1 behind token 6; token 5 twice, with one empty slot.
AssetsPool ==
    { <<Asset(Lit(5), Lit(100)), Asset(Zero, Zero), Asset(Zero, Zero), Asset(Zero, Zero)>>,
      <<Asset(Lit(5), Lit(41)), Asset(Zero, Zero), Asset(Zero, Zero), Asset(Zero, Zero)>>,
      <<Asset(Lit(6), Lit(10)), Asset(Lit(5), Lit(100)), Asset(Zero, Zero), Asset(Zero, Zero)>>,
      <<Asset(Lit(6), Lit(1)), Asset(Zero, Zero), Asset(Lit(5), Lit(100)), Asset(Lit(5), Lit(7))>> }

TokenPool == { Zero, Lit(5), Lit(6), Lit(8) }

TransferAmountPool == { Lit(40), Lit(101), Neg(1) }

FeePool == { Lit(2), Lit(11) }

InSalt == Lit(9)

SpendRequest(in_signer, in_recipient, assets, token, amount, fee, ensure_unique, verify_proof) ==
    [kind            |-> "spend",
     signer          |-> Signer,
     recipient_pk_x  |-> X2,
     input           |-> TxInput(Utxo(assets, in_recipient, InSalt), in_signer),
     transfer_token  |-> token,
     transfer_amount |-> amount,
     fee_amount      |-> fee,
     ensure_unique   |-> ensure_unique,
     verify_proof    |-> verify_proof]

MergeRequest(signer0, recipient0, signer1, recipient1, out_salt, ensure_unique, verify_proof) ==
    [kind          |-> "merge",
     signer        |-> Signer,
     inputs        |-> <<TxInput(Utxo(<<Asset(Lit(5), Lit(60)), Asset(Zero, Zero),
                                        Asset(Zero, Zero), Asset(Zero, Zero)>>,
                                      recipient0, InSalt), signer0),
                         TxInput(Utxo(<<Asset(Lit(5), Lit(40)), Asset(Zero, Zero),
                                        Asset(Zero, Zero), Asset(Zero, Zero)>>,
                                      recipient1, Lit(8)), signer1)>>,
     out_tokens    |-> <<Lit(5), Zero, Zero, Zero>>,
     out_amounts   |-> <<Lit(100), Zero, Zero, Zero>>,
     out_salt      |-> out_salt,
     ensure_unique |-> ensure_unique,
     verify_proof  |-> verify_proof]

\* The commitments of the outputs the request can give with a salt from S.
OutputCommits(req, S) ==
    IF req.kind = "spend"
    THEN LET v == prove_spend_setup(req)
         IN  IF ~v.ok THEN {}
             ELSE UNION { LET pack == pack_spend_inputs(SpendInputs(req, v.val, s, s))
                          IN  {pack.receiver_commit, pack.remainder_commit} : s \in S }
    ELSE { pack_merge_inputs(MergeInputs(req, s)).out_commit : s \in S }

\* The callbacks: none; one that accepts everything; one that reports the
\* outputs with salt 1 as colliding; one that reports a collision on every
\* call; one that reports those with salt 1 and fails on those with salt 2.
EnsureUniquePool(req) ==
    { None,
      Some([collide |-> {}, fail |-> {}, always |-> FALSE]),
      Some([collide |-> OutputCommits(req, {Lit(1)}), fail |-> {}, always |-> FALSE]),
      Some([collide |-> {}, fail |-> {}, always |-> TRUE]),
      Some([collide |-> OutputCommits(req, {Lit(1)}),
            fail    |-> OutputCommits(req, {Lit(2)}), always |-> FALSE]) }

SpendRequestPool ==
    UNION { LET req == SpendRequest(pk, r, a, t, m, f, None, v)
            IN  { [req EXCEPT !.ensure_unique = eu] : eu \in EnsureUniquePool(req) } :
            pk \in PublicKeyPool, r \in RecipientPool, a \in AssetsPool,
            t \in TokenPool, m \in TransferAmountPool, f \in FeePool,
            v \in BOOLEAN }

MergeRequestPool ==
    UNION { LET req == MergeRequest(pk0, r0, pk1, r1, os, None, v)
            IN  { [req EXCEPT !.ensure_unique = eu] : eu \in EnsureUniquePool(req) } :
            pk0 \in PublicKeyPool, r0 \in RecipientPool,
            pk1 \in PublicKeyPool, r1 \in RecipientPool,
            os \in {None, Some(Lit(1))}, v \in BOOLEAN }

InitTx ==
    /\ scenario = "tx"
    /\ request \in SpendRequestPool \cup MergeRequestPool
    /\ locals = <<>>
    /\ salts = <<>>
    /\ prepared = <<>>
    /\ result = <<>>
    /\ effects = {}
    /\ reported = {}
    /\ cands = <<>>
    /\ membership = {}
    /\ hashes = <<>>
    /\ pc = "input"
    /\ op = "none"
    /\ sorted = <<>>
    /\ trace = <<>>
    /\ ordered = <<>>
    /\ block = <<>>
    /\ root = None
    /\ fallback = FALSE
    /\ InitHashVars
    /\ InitCatVars

batchvars == <<scenario, cands, membership, hashes, sorted, trace, block, root,
               fallback, hashvars>>

\* prove_spend up to the loop: ensure_circuit_loaded (the catalog may fail
\* to load the circuit), the checks, and the first two salts.
ProveSpendBegin ==
    /\ pc = "input" /\ scenario = "tx" /\ request.kind = "spend"
    /\ op' = "prove_spend"
    /\ \E loaded \in BOOLEAN : \E v \in {prove_spend_setup(request)} :
           IF ~loaded \/ ~v.ok
           THEN /\ result' = IF ~loaded THEN Err("circuit utxo_spend is not registered")
                             ELSE v
                /\ pc' = "done"
                /\ UNCHANGED <<locals, salts, effects>>
           ELSE /\ locals' = v.val
                /\ \E receiver_salt, remainder_salt \in SaltPool :
                       salts' = <<receiver_salt, remainder_salt>>
                /\ effects' = effects \cup {"random_salt_field"}
                /\ pc' = "loop"
                /\ UNCHANGED result
    /\ UNCHANGED <<request, prepared, reported, ordered, batchvars, catvars>>

\* One turn of the loop of prove_spend.
ProveSpendLoop ==
    /\ pc = "loop" /\ request.kind = "spend"
    /\ \E t \in {spend_loop_turn(request, locals, salts[1], salts[2])} :
           /\ effects' = IF request.ensure_unique # None
                         THEN effects \cup {"ensure_unique"} ELSE effects
           /\ IF t.next = "err"
              THEN /\ result' = t.err
                   /\ pc' = "done"
                   /\ UNCHANGED <<salts, prepared, reported>>
              ELSE IF t.next = "continue"
              THEN /\ \E receiver_salt, remainder_salt \in SaltPool :
                          salts' = <<receiver_salt, remainder_salt>>
                   /\ reported' = {<<t.pack.receiver_commit, t.pack.remainder_commit>>}
                   /\ pc' = "loop"
                   /\ UNCHANGED <<prepared, result>>
              ELSE /\ prepared' = t.pack
                   /\ pc' = "prepared"
                   /\ UNCHANGED <<salts, result, reported>>
    /\ UNCHANGED <<request, locals, op, ordered, batchvars, catvars>>

\* prove_spend after the loop: sign, prove, verify, build the SpendTx.
ProveSpendFinish ==
    /\ pc = "prepared" /\ request.kind = "spend"
    /\ \E backend \in {"ok", "prove fails", "verify fails"} :
           /\ result' = prove_spend_finish(request, locals, salts[1], salts[2],
                                           prepared, backend)
           /\ effects' = effects \cup {"sign_prehash", "prove_with_all_inputs"}
                           \cup (IF request.verify_proof /\ backend # "prove fails"
                                 THEN {"verify"} ELSE {})
    /\ pc' = "done"
    /\ UNCHANGED <<request, locals, salts, prepared, reported, op, ordered, batchvars, catvars>>

\* prove_merge up to the loop.
ProveMergeBegin ==
    /\ pc = "input" /\ scenario = "tx" /\ request.kind = "merge"
    /\ op' = "prove_merge"
    /\ \E loaded \in BOOLEAN : \E v \in {merge_check_signer(request)} :
           IF ~loaded \/ ~v.ok
           THEN /\ result' = IF ~loaded THEN Err("circuit utxo_merge is not registered")
                             ELSE v
                /\ pc' = "done"
                /\ UNCHANGED <<salts, effects>>
           ELSE /\ IF request.out_salt # None
                   THEN /\ salts' = <<request.out_salt[1]>>
                        /\ UNCHANGED effects
                   ELSE /\ \E output_salt \in SaltPool : salts' = <<output_salt>>
                        /\ effects' = effects \cup {"random_salt_field"}
                /\ pc' = "loop"
                /\ UNCHANGED result
    /\ UNCHANGED <<request, locals, prepared, reported, ordered, batchvars, catvars>>

\* One turn of the loop of prove_merge.
ProveMergeLoop ==
    /\ pc = "loop" /\ request.kind = "merge"
    /\ \E t \in {merge_loop_turn(request, salts[1])} :
           /\ IF t.next = "err"
              THEN /\ result' = t.err
                   /\ pc' = "done"
                   /\ effects' = effects \cup {"ensure_unique"}
                   /\ UNCHANGED <<salts, prepared, reported>>
              ELSE IF t.next = "continue"
              THEN /\ \E output_salt \in SaltPool : salts' = <<output_salt>>
                   /\ reported' = {<<t.pack.out_commit>>}
                   /\ effects' = effects \cup {"ensure_unique", "random_salt_field"}
                   /\ pc' = "loop"
                   /\ UNCHANGED <<prepared, result>>
              ELSE /\ prepared' = t.pack
                   /\ pc' = "prepared"
                   /\ effects' = IF request.ensure_unique # None
                                 THEN effects \cup {"ensure_unique"} ELSE effects
                   /\ UNCHANGED <<salts, result, reported>>
    /\ UNCHANGED <<request, locals, op, ordered, batchvars, catvars>>

\* prove_merge after the loop.
ProveMergeFinish ==
    /\ pc = "prepared" /\ request.kind = "merge"
    /\ \E backend \in {"ok", "prove fails", "verify fails"} :
           /\ result' = prove_merge_finish(request, salts[1], prepared, backend)
           /\ effects' = effects \cup {"sign_prehash", "prove_with_all_inputs"}
                           \cup (IF request.verify_proof /\ backend # "prove fails"
                                 THEN {"verify"} ELSE {})
    /\ pc' = "done"
    /\ UNCHANGED <<request, locals, salts, prepared, reported, op, ordered, batchvars, catvars>>

\* BindingLeaf::from_spend on the SpendTx returned.
FromSpend ==
    /\ pc = "done" /\ scenario = "tx" /\ request.kind = "spend" /\ result.ok
    /\ \E leaf_id \in LeafIdPool : ordered' = <<from_spend(leaf_id, result.val)>>
    /\ pc' = "bound"
    /\ UNCHANGED <<op, txvars, batchvars, catvars>>

\* BindingLeaf::from_merge on the MergeTx returned.
FromMerge ==
    /\ pc = "done" /\ scenario = "tx" /\ request.kind = "merge" /\ result.ok
    /\ \E leaf_id \in LeafIdPool : ordered' = <<from_merge(leaf_id, result.val)>>
    /\ pc' = "bound"
    /\ UNCHANGED <<op, txvars, batchvars, catvars>>

NextTx ==
    \/ ProveSpendBegin
    \/ ProveSpendLoop
    \/ ProveSpendFinish
    \/ ProveMergeBegin
    \/ ProveMergeLoop
    \/ ProveMergeFinish
    \/ FromSpend
    \/ FromMerge

SpecTx == InitTx /\ [][NextTx]_vars

\* Once called, prove_spend and prove_merge keep running: the loop takes
\* its next turn and the code after the loop is executed.
SpecTxFair ==
    SpecTx /\ WF_vars(ProveSpendLoop) /\ WF_vars(ProveMergeLoop)
           /\ WF_vars(ProveSpendFinish) /\ WF_vars(ProveMergeFinish)


(***************************************************************************)
(* catalog.rs, artifacts.rs, barretenberg.rs and the catalog functions of  *)
(* prover.rs.  Byte strings (acir, vk, abi) are strings, "" the empty one; *)
(* the backend's compile_mega, write_vk_mega_honk and mega_vk_hash are     *)
(* uninterpreted: what they return is a term over their argument, or one   *)
(* of the other answers a backend can give (an error, another key id).     *)
(***************************************************************************)
CircuitEntry(name, acir, vk, abi, key_id, vk_hash) ==
    [name |-> name, acir |-> acir, vk |-> vk, abi |-> abi, key_id |-> key_id,
     vk_hash |-> vk_hash]

EmbeddedCircuit(name, acir, vk, abi_json) ==
    [name |-> name, acir |-> acir, vk |-> vk, abi_json |-> abi_json]

\* artifacts::embedded; the verifying keys of the bundle are not empty
embedded ==
    << EmbeddedCircuit("utxo_spend", "utxo_spend.acir", "utxo_spend.vk",
                       "utxo_spend.abi.json"),
       EmbeddedCircuit("utxo_merge", "utxo_merge.acir", "utxo_merge.vk",
                       "utxo_merge.abi.json") >>

EmbeddedNames == { embedded[i].name : i \in 1..Len(embedded) }

\* serde_json::from_str on an abi json that parses
Abi(abi_json) == <<"abi", abi_json>>

\* what compile_mega, write_vk_mega_honk and mega_vk_hash return on success
KeyId(acir) == <<"key_id", acir>>

OtherKeyId(acir) == <<"key_id", acir, "other">>

Vk(acir) == "vk of " \o acir

VkHash(vk) == <<"vk_hash", vk>>

\* HashMap::new
EmptyMap == [n \in {} |-> n]

\* catalog::all_loaded
all_loaded(cache) == DOMAIN cache

\* Mutant of get: a name that is not registered finds some other circuit.
get_or_any(cache, name) ==
    IF name \in DOMAIN cache THEN Some(cache[name])
    ELSE IF DOMAIN cache # {} THEN Some(cache[CHOOSE n \in DOMAIN cache : TRUE])
    ELSE None

\* catalog::get
get(cache, name) == IF name \in DOMAIN cache THEN Some(cache[name]) ELSE None

\* catalog::insert
insert(cache, entry) ==
    [n \in DOMAIN cache \cup {entry.name} |->
        IF n = entry.name THEN entry ELSE cache[n]]

\* Mutant of update_vk: nothing is stored.
update_vk_stores_nothing(cache, name, vk, vk_hash, key_id) == cache

\* catalog::update_vk
update_vk(cache, name, vk, vk_hash, key_id) ==
    IF name \in DOMAIN cache
    THEN [cache EXCEPT ![name] =
             [@ EXCEPT !.vk      = IF @ = "" \/ @ # vk THEN vk ELSE @,
                       !.vk_hash = IF @ # vk_hash THEN vk_hash ELSE @,
                       !.key_id  = IF key_id # None THEN key_id[1] ELSE @]]
    ELSE cache

\* catalog::clear
clear(cache) == EmptyMap

\* catalog::hydrate, the loop over entries[k..]
RECURSIVE hydrate_from(_, _, _)
hydrate_from(cache, entries, k) ==
    IF k > Len(entries) THEN cache
    ELSE hydrate_from(insert(cache, entries[k]), entries, k + 1)

\* Mutant of hydrate: an entry is restored only under a name the catalog
\* does not hold.
hydrate_absent_only(cache, entries) ==
    [n \in DOMAIN cache \cup { entries[i].name : i \in 1..Len(entries) } |->
        IF n \in DOMAIN cache THEN cache[n]
        ELSE entries[CHOOSE i \in 1..Len(entries) : entries[i].name = n]]

\* Mutant of hydrate: only the first entry is restored.
hydrate_first_only(cache, entries) ==
    IF entries = <<>> THEN cache ELSE insert(cache, entries[1])

\* catalog::hydrate
hydrate(cache, entries) == hydrate_from(cache, entries, 1)

\* get_circuit_by_key_id returns the first entry, in the order the HashMap
\* lists its names, whose key_id is id: any of the entries with that key_id.
get_circuit_by_key_id(cache, id) ==
    { cache[n] : n \in { m \in DOMAIN cache : cache[m].key_id = id } }


(***************************************************************************)
(* Threads.  A thread is idle or inside one call of the library; a call is *)
(* a sequence of steps, one per access to a lock, to the catalog or to the *)
(* backend.  A catalog function that locks CACHE, works and unlocks within *)
(* one expression is one step, enabled when no thread holds the mutex.     *)
(* After a call has returned the thread keeps what it returned (ret), what *)
(* it observed (obs), and the catalog and the backend counters as they     *)
(* were when it was called (before).                                       *)
(***************************************************************************)
Threads == 1..MaxThreads

BackendFns ==
    { "compile_mega", "write_vk_mega_honk", "mega_vk_hash",
      "bb_poseidon2_permutation_bn254", "prove_with_id", "verify_with_id" }

IdleThread ==
    [pc |-> "idle", op |-> "none", arg |-> <<>>, stack |-> <<>>, k |-> 0,
     entries |-> <<>>, loc |-> <<>>, ret |-> <<>>, obs |-> <<>>, before |-> <<>>]

\* calls of the library started so far
Started == bb_calls.started

CanCall(t) == thread[t].pc = "idle" /\ Started < MaxCalls

\* the thread that makes the calls of the sequential scenarios
VkThread == 1

\* a call of the bootstrap or of the catalog can start
CanCallCatalog(t) ==
    /\ thread[t].pc = "idle"
    /\ \/ scenario = "boot" /\ Started < MaxCalls
       \/ scenario = "reinit" /\ Started < MaxVkCalls /\ t = VkThread
       \/ scenario = "conc" /\ thread[t].op = "none"

\* the thread enters a call
Called(t, op_name, arg, pc_name) ==
    [IdleThread EXCEPT !.pc = pc_name, !.op = op_name, !.arg = arg,
                       !.before = [cache |-> CACHE, made |-> bb_calls.made]]

\* the thread returns r from its call
Returned(t, r) ==
    [IdleThread EXCEPT !.op = thread[t].op, !.arg = thread[t].arg, !.ret = r,
                       !.obs = thread[t].obs, !.before = thread[t].before]

\* a backend function is entered and left
Entered(calls, t, fn) ==
    [calls EXCEPT !.inside = @ \cup {<<t, fn>>}, !.made[fn] = @ + 1]

Left(calls, t, fn) == [calls EXCEPT !.inside = @ \ {<<t, fn>>}]

Enter(t, fn) == Entered(bb_calls, t, fn)

Leave(t, fn) == Left(bb_calls, t, fn)

InitThreads ==
    /\ thread = [t \in Threads |-> IdleThread]
    /\ bb_calls = [inside |-> {}, made |-> [f \in BackendFns |-> 0],
                   started |-> 0, init_embedded |-> 0]
    /\ cache_guard = 0
    /\ BB_GUARD = 0
    /\ CRS_INIT = FALSE

\* the variables of the other scenarios
InitNoBatch ==
    /\ cands = <<>>
    /\ membership = {}
    /\ hashes = <<>>
    /\ pc = "input"
    /\ op = "none"
    /\ sorted = <<>>
    /\ trace = <<>>
    /\ ordered = <<>>
    /\ block = <<>>
    /\ root = None
    /\ fallback = FALSE
    /\ InitHashVars
    /\ InitTxVars

othervars == <<scenario, cands, membership, hashes, pc, op, sorted, trace,
               ordered, block, root, fallback, hashvars, txvars>>

(***************************************************************************)
(* The embedded bootstrap: prover::init_embedded_catalog and               *)
(* catalog::init_embedded.                                                 *)
(***************************************************************************)
OnceLock(state, value) == [state |-> state, value |-> value]

\* Mutant of get_or_init_runs: a caller that finds the closure running runs
\* it as well.
get_or_init_runs_unguarded(cell) == cell.state # "complete"

\* OnceLock::get_or_init: the caller that finds the cell incomplete runs the
\* closure; one that finds it running waits; one that finds it complete
\* takes the value.
get_or_init_runs(cell) == cell.state = "incomplete"

\* Mutant of init_embedded_catalog_match: the error of the bootstrap is
\* swallowed.
init_embedded_catalog_match_swallows(res) == Ok(<<>>)

\* init_embedded_catalog: what the match on the result returns
init_embedded_catalog_match(res) ==
    IF res.ok THEN Ok(<<>>) ELSE Err(res.val)

\* init_embedded_catalog (init_default_circuits) is called: ensure_crs
CallInitEmbeddedCatalog(t) ==
    /\ CanCallCatalog(t)
    /\ thread' = [thread EXCEPT ![t] =
                      Called(t, "init_embedded_catalog", <<>>, "get_or_init")]
    /\ CRS_INIT' = TRUE
    /\ bb_calls' = [bb_calls EXCEPT !.started = @ + 1]
    /\ UNCHANGED <<CACHE, cache_guard, EMBEDDED_INIT, VK_REGISTRY, BB_GUARD, othervars>>

\* EMBEDDED_INIT.get_or_init(catalog::init_embedded)
GetOrInit(t) ==
    /\ thread[t].pc = "get_or_init"
    /\ IF get_or_init_runs(EMBEDDED_INIT)
       THEN /\ EMBEDDED_INIT' = OnceLock("running", <<>>)
            /\ thread' = [thread EXCEPT ![t].pc = "init_embedded"]
            /\ bb_calls' = [bb_calls EXCEPT !.init_embedded = @ + 1]
       ELSE /\ EMBEDDED_INIT.state = "complete"
            /\ thread' = [thread EXCEPT ![t].pc = "match"]
            /\ UNCHANGED <<EMBEDDED_INIT, bb_calls>>
    /\ UNCHANGED <<CACHE, cache_guard, CRS_INIT, VK_REGISTRY, BB_GUARD, othervars>>

\* init_embedded returns res to get_or_init: cache_guard is dropped and the
\* cell is completed
InitEmbeddedReturns(t, res) ==
    /\ cache_guard' = 0
    /\ EMBEDDED_INIT' = OnceLock("complete", res)
    /\ thread' = [thread EXCEPT ![t].pc = "match", ![t].k = 0,
                                ![t].entries = <<>>, ![t].loc = <<>>]

\* init_embedded: let mut cache_guard = cache().lock().unwrap()
InitEmbeddedLock(t) ==
    /\ thread[t].pc = "init_embedded"
    /\ cache_guard = 0
    /\ cache_guard' = t
    /\ thread' = [thread EXCEPT ![t].pc = "parse_abi", ![t].k = 1]
    /\ UNCHANGED <<CACHE, EMBEDDED_INIT, CRS_INIT, VK_REGISTRY, BB_GUARD, bb_calls,
                   othervars>>

\* init_embedded: the head of the loop and serde_json::from_str
InitEmbeddedParseAbi(t) ==
    /\ thread[t].pc = "parse_abi"
    /\ LET embed == embedded[thread[t].k]
       IN  \E parsed \in BOOLEAN :
               IF parsed
               THEN /\ thread' = [thread EXCEPT ![t].pc = "with_bb_lock"]
                    /\ UNCHANGED <<cache_guard, EMBEDDED_INIT>>
               ELSE InitEmbeddedReturns(t, Err("parsing ABI for " \o embed.name))
    /\ UNCHANGED <<CACHE, CRS_INIT, VK_REGISTRY, BB_GUARD, bb_calls, othervars>>

\* init_embedded: with_bb_lock takes BB_GUARD and calls compile_mega
InitEmbeddedCompile(t) ==
    /\ thread[t].pc = "with_bb_lock"
    /\ BB_GUARD = 0
    /\ BB_GUARD' = t
    /\ bb_calls' = Enter(t, "compile_mega")
    /\ thread' = [thread EXCEPT ![t].pc = "compile_mega"]
    /\ UNCHANGED <<CACHE, cache_guard, EMBEDDED_INIT, CRS_INIT, VK_REGISTRY, othervars>>

\* init_embedded: compile_mega returns, with_bb_lock drops the guard
InitEmbeddedCompiled(t) ==
    /\ thread[t].pc = "compile_mega"
    /\ BB_GUARD' = 0
    /\ bb_calls' = Leave(t, "compile_mega")
    /\ LET embed == embedded[thread[t].k]
       IN  \E compiled \in BOOLEAN :
               IF compiled
               THEN /\ thread' = [thread EXCEPT
                          ![t].pc = IF embed.vk = "" THEN "insert" ELSE "mega_vk_hash",
                          ![t].loc = [key_id |-> KeyId(embed.acir), vk_hash |-> None]]
                    /\ UNCHANGED <<cache_guard, EMBEDDED_INIT>>
               ELSE InitEmbeddedReturns(t, Err("compile_mega for " \o embed.name))
    /\ UNCHANGED <<CACHE, CRS_INIT, VK_REGISTRY, othervars>>

\* init_embedded: mega_vk_hash is called
InitEmbeddedVkHash(t) ==
    /\ thread[t].pc = "mega_vk_hash"
    /\ bb_calls' = Enter(t, "mega_vk_hash")
    /\ thread' = [thread EXCEPT ![t].pc = "mega_vk_hash returns"]
    /\ UNCHANGED <<CACHE, cache_guard, EMBEDDED_INIT, CRS_INIT, VK_REGISTRY, BB_GUARD,
                   othervars>>

\* init_embedded: mega_vk_hash returns
InitEmbeddedVkHashed(t) ==
    /\ thread[t].pc = "mega_vk_hash returns"
    /\ bb_calls' = Leave(t, "mega_vk_hash")
    /\ LET embed == embedded[thread[t].k]
       IN  \E hashed \in BOOLEAN :
               IF hashed
               THEN /\ thread' = [thread EXCEPT ![t].pc = "insert",
                                      ![t].loc.vk_hash = Some(VkHash(embed.vk))]
                    /\ UNCHANGED <<cache_guard, EMBEDDED_INIT>>
               ELSE InitEmbeddedReturns(t, Err("vk hash for " \o embed.name))
    /\ UNCHANGED <<CACHE, CRS_INIT, VK_REGISTRY, BB_GUARD, othervars>>

\* init_embedded: the entry is inserted through cache_guard and pushed; after
\* the last one Ok(entries) is returned
InitEmbeddedInsert(t) ==
    /\ thread[t].pc = "insert"
    /\ LET embed == embedded[thread[t].k]
           entry == CircuitEntry(embed.name, embed.acir, embed.vk, Abi(embed.abi_json),
                                 thread[t].loc.key_id, thread[t].loc.vk_hash)
           entries == Append(thread[t].entries, entry)
       IN  /\ CACHE' = insert(CACHE, entry)
           /\ IF thread[t].k < Len(embedded)
              THEN /\ thread' = [thread EXCEPT ![t].pc = "parse_abi", ![t].k = @ + 1,
                                     ![t].entries = entries, ![t].loc = <<>>]
                   /\ UNCHANGED <<cache_guard, EMBEDDED_INIT>>
              ELSE InitEmbeddedReturns(t, Ok(entries))
    /\ UNCHANGED <<CRS_INIT, VK_REGISTRY, BB_GUARD, bb_calls, othervars>>

\* init_embedded_catalog: the match on the result, with catalog::hydrate
InitEmbeddedCatalogMatch(t) ==
    /\ thread[t].pc = "match"
    /\ LET res == EMBEDDED_INIT.value
       IN  /\ res.ok => cache_guard = 0
           /\ CACHE' = IF res.ok THEN hydrate(CACHE, res.val) ELSE CACHE
           /\ thread' = [thread EXCEPT ![t] =
                             Returned(t, init_embedded_catalog_match(res))]
    /\ UNCHANGED <<cache_guard, EMBEDDED_INIT, CRS_INIT, VK_REGISTRY, BB_GUARD, bb_calls,
                   othervars>>

\* catalog::all_loaded, called and returned
AllLoaded(t) ==
    /\ scenario = "boot" /\ CanCall(t)
    /\ cache_guard = 0
    /\ thread' = [thread EXCEPT ![t] =
                      [Returned(t, Ok(<<>>)) EXCEPT !.op = "all_loaded", !.arg = <<>>,
                                                    !.obs = all_loaded(CACHE),
                                                    !.before = <<>>]]
    /\ bb_calls' = [bb_calls EXCEPT !.started = @ + 1]
    /\ UNCHANGED <<CACHE, cache_guard, EMBEDDED_INIT, CRS_INIT, VK_REGISTRY, BB_GUARD,
                   othervars>>

\* catalog::clear, called and returned
Clear(t) ==
    /\ CanCallCatalog(t)
    /\ cache_guard = 0
    /\ CACHE' = clear(CACHE)
    /\ thread' = [thread EXCEPT ![t] =
                      [Returned(t, Ok(<<>>)) EXCEPT !.op = "clear", !.arg = <<>>,
                                                    !.obs = <<>>, !.before = <<>>]]
    /\ bb_calls' = [bb_calls EXCEPT !.started = @ + 1]
    /\ UNCHANGED <<cache_guard, EMBEDDED_INIT, CRS_INIT, VK_REGISTRY, BB_GUARD, othervars>>

\* poseidon2::permute4 is called: the permutation of the backend is entered
Permute4(t) ==
    /\ scenario = "boot" /\ CanCall(t)
    /\ thread' = [thread EXCEPT ![t] = [IdleThread EXCEPT !.pc = "permute4",
                                                         !.op = "permute4"]]
    /\ bb_calls' = [Enter(t, "bb_poseidon2_permutation_bn254") EXCEPT !.started = @ + 1]
    /\ UNCHANGED <<CACHE, cache_guard, EMBEDDED_INIT, CRS_INIT, VK_REGISTRY, BB_GUARD,
                   othervars>>

\* poseidon2::permute4 returns
Permuted4(t) ==
    /\ thread[t].pc = "permute4"
    /\ thread' = [thread EXCEPT ![t] = Returned(t, Ok(<<>>))]
    /\ bb_calls' = Leave(t, "bb_poseidon2_permutation_bn254")
    /\ UNCHANGED <<CACHE, cache_guard, EMBEDDED_INIT, CRS_INIT, VK_REGISTRY, BB_GUARD,
                   othervars>>

InitBoot ==
    /\ scenario = "boot"
    /\ CACHE = EmptyMap
    /\ EMBEDDED_INIT = OnceLock("incomplete", <<>>)
    /\ VK_REGISTRY = EmptyMap
    /\ InitThreads
    /\ InitNoBatch

NextBoot ==
    \E t \in Threads :
        \/ CallInitEmbeddedCatalog(t)
        \/ GetOrInit(t)
        \/ InitEmbeddedLock(t)
        \/ InitEmbeddedParseAbi(t)
        \/ InitEmbeddedCompile(t)
        \/ InitEmbeddedCompiled(t)
        \/ InitEmbeddedVkHash(t)
        \/ InitEmbeddedVkHashed(t)
        \/ InitEmbeddedInsert(t)
        \/ InitEmbeddedCatalogMatch(t)
        \/ AllLoaded(t)
        \/ Clear(t)
        \/ Permute4(t)
        \/ Permuted4(t)

SpecBoot == InitBoot /\ [][NextBoot]_vars

(***************************************************************************)
(* Lazy derivation of verifying keys and their hashes:                     *)
(* prover::get_vk_bytes_by_id, get_vk_hash_by_id and regenerate_vk, with   *)
(* catalog::update_vk.  The calls of this scenario are made one after      *)
(* another; the catalog they start from holds any of the entries that      *)
(* insert_circuit can put there.  The registry of verifying keys that come *)
(* from proof merging is modelled from the specification: the catalog      *)
(* functions get_vk_entry_by_id and upsert_vk_entry are not in the source. *)
(***************************************************************************)
CircuitNames == EmbeddedNames

AcirOf(name) == name \o ".acir"

\* entries a catalog can hold for a circuit: without verifying key, with the
\* key and no hash, with both
EntryPool(name) ==
    { CircuitEntry(name, AcirOf(name), vk_and_hash[1], Abi(name \o ".abi.json"),
                   KeyId(AcirOf(name)), vk_and_hash[2]) :
        vk_and_hash \in { <<"", None>>,
                          <<Vk(AcirOf(name)), None>>,
                          <<Vk(AcirOf(name)), Some(VkHash(Vk(AcirOf(name))))>> } }

\* catalogs: utxo_spend absent or in any of these states, utxo_merge absent or
\* complete
CatalogPool ==
    LET merge == CHOOSE e \in EntryPool("utxo_merge") : e.vk_hash # None
        with_merge(c) == { c, insert(c, merge) }
    IN  UNION { with_merge(c) :
                c \in { EmptyMap } \cup
                      { insert(EmptyMap, e) : e \in EntryPool("utxo_spend") } }

MergedId == <<"key_id", "merged">>
UnknownId == <<"key_id", "unknown">>

VkEntry(bytes, hash) == [bytes |-> bytes, hash |-> hash]

RegistryPool ==
    { EmptyMap } \cup
    { [id \in {MergedId} |-> e] :
        e \in { VkEntry("", None), VkEntry("vk of merged", None),
                VkEntry("vk of merged", Some(MergedId)) } }

VkIds == { KeyId(AcirOf(n)) : n \in CircuitNames } \cup { MergedId, UnknownId }

\* catalog::get_vk_entry_by_id
get_vk_entry_by_id(registry, id) ==
    IF id \in DOMAIN registry THEN Some(registry[id]) ELSE None

\* catalog::upsert_vk_entry
upsert_vk_entry(registry, id, bytes, hash) ==
    [i \in DOMAIN registry \cup {id} |->
        IF i = id THEN VkEntry(bytes, hash) ELSE registry[i]]

Locals == [hentry |-> None, entry |-> None, name |-> "", key_id |-> None, vk |-> ""]

\* the calls of a sequential scenario do not overlap; in the concurrent
\* scenario every thread makes one call
CanCallVk(t) ==
    /\ thread[t].pc = "idle"
    /\ \/ scenario \in {"vk", "reinit"} /\ Started < MaxVkCalls /\ t = VkThread
       \/ scenario = "conc" /\ thread[t].op = "none"

\* an error leaves every frame of the thread through `?`
Propagate(t, message) == thread' = [thread EXCEPT ![t] = Returned(t, Err(message))]

\* get_vk_bytes_by_id returns res: to its caller, or into get_vk_hash_by_id
GetVkBytesReturns(t, res) ==
    IF ~res.ok \/ thread[t].stack = <<>>
    THEN thread' = [thread EXCEPT ![t] = Returned(t, res)]
    ELSE thread' = [thread EXCEPT ![t].pc = "gvh_hash", ![t].stack = <<>>,
                                  ![t].loc.vk = res.val]

\* catalog::update_vk, called and returned
UpdateVk(t, name, vk, vk_hash, key_id) ==
    /\ CanCallVk(t)
    /\ cache_guard = 0
    /\ CACHE' = update_vk(CACHE, name, vk, vk_hash, key_id)
    /\ thread' = [thread EXCEPT ![t] =
                      [IdleThread EXCEPT !.op = "update_vk",
                                         !.arg = <<name, vk, vk_hash, key_id>>,
                                         !.ret = Ok(<<>>),
                                         !.before = [cache |-> CACHE,
                                                     made |-> bb_calls.made]]]
    /\ bb_calls' = [bb_calls EXCEPT !.started = @ + 1]
    /\ UNCHANGED <<cache_guard, EMBEDDED_INIT, CRS_INIT, VK_REGISTRY, BB_GUARD, othervars>>

\* get_vk_bytes_by_id is called: ensure_crs
CallGetVkBytesById(t, vk_id) ==
    /\ CanCallVk(t)
    /\ thread' = [thread EXCEPT ![t] =
                      [Called(t, "get_vk_bytes_by_id", vk_id, "gvb_lookup")
                          EXCEPT !.loc = Locals]]
    /\ CRS_INIT' = TRUE
    /\ bb_calls' = [bb_calls EXCEPT !.started = @ + 1]
    /\ UNCHANGED <<CACHE, cache_guard, EMBEDDED_INIT, VK_REGISTRY, BB_GUARD, othervars>>

\* get_vk_bytes_by_id: get_circuit_by_key_id, and the branches that return at
\* once
GetVkBytesLookup(t) ==
    /\ thread[t].pc = "gvb_lookup"
    /\ cache_guard = 0
    /\ LET vk_id == thread[t].arg
           found == get_circuit_by_key_id(CACHE, vk_id)
           vk_entry == get_vk_entry_by_id(VK_REGISTRY, vk_id)
       IN  IF found # {}
           THEN \E entry \in found :
                    IF entry.vk = ""
                    THEN thread' = [thread EXCEPT ![t].pc = "regen_get",
                                                  ![t].loc.entry = Some(entry),
                                                  ![t].loc.name = entry.name,
                                                  ![t].stack = <<"gvb_refreshed">> \o @]
                    ELSE GetVkBytesReturns(t, Ok(entry.vk))
           ELSE IF vk_entry # None
           THEN IF vk_entry[1].bytes = ""
                THEN Propagate(t, "verifying key bytes missing for id")
                ELSE GetVkBytesReturns(t, Ok(vk_entry[1].bytes))
           ELSE Propagate(t, "unknown verifying key id")
    /\ UNCHANGED <<CACHE, cache_guard, EMBEDDED_INIT, CRS_INIT, VK_REGISTRY, BB_GUARD,
                   bb_calls, othervars>>

\* regenerate_vk is called
CallRegenerateVk(t, name) ==
    /\ CanCallVk(t)
    /\ thread' = [thread EXCEPT ![t] =
                      [Called(t, "regenerate_vk", name, "regen_get")
                          EXCEPT !.loc = [Locals EXCEPT !.name = name]]]
    /\ bb_calls' = [bb_calls EXCEPT !.started = @ + 1]
    /\ UNCHANGED <<CACHE, cache_guard, EMBEDDED_INIT, CRS_INIT, VK_REGISTRY, BB_GUARD,
                   othervars>>

\* regenerate_vk: get_circuit(name)
RegenerateVkGet(t) ==
    /\ thread[t].pc = "regen_get"
    /\ cache_guard = 0
    /\ LET entry == get(CACHE, thread[t].loc.name)
       IN  IF entry = None
           THEN Propagate(t, "circuit not initialized")
           ELSE thread' = [thread EXCEPT ![t].pc = "regen_lock",
                                         ![t].loc.entry = entry]
    /\ UNCHANGED <<CACHE, cache_guard, EMBEDDED_INIT, CRS_INIT, VK_REGISTRY, BB_GUARD,
                   bb_calls, othervars>>

\* regenerate_vk: with_bb_lock takes BB_GUARD and calls compile_mega
RegenerateVkCompile(t) ==
    /\ thread[t].pc = "regen_lock"
    /\ BB_GUARD = 0
    /\ BB_GUARD' = t
    /\ bb_calls' = Enter(t, "compile_mega")
    /\ thread' = [thread EXCEPT ![t].pc = "regen_compile"]
    /\ UNCHANGED <<CACHE, cache_guard, EMBEDDED_INIT, CRS_INIT, VK_REGISTRY, othervars>>

\* regenerate_vk: compile_mega returns an id, the one the entry has or another,
\* and write_vk_mega_honk is called under the same guard; or it fails
RegenerateVkWriteVk(t) ==
    /\ thread[t].pc = "regen_compile"
    /\ LET acir == thread[t].loc.entry[1].acir
       IN  \E id \in { Some(KeyId(acir)), Some(OtherKeyId(acir)), None } :
               IF id # None
               THEN /\ thread' = [thread EXCEPT ![t].pc = "regen_write_vk",
                                                ![t].loc.key_id = id]
                    /\ bb_calls' = Entered(Leave(t, "compile_mega"), t,
                                            "write_vk_mega_honk")
                    /\ UNCHANGED BB_GUARD
               ELSE /\ Propagate(t, "compile_mega failed")
                    /\ bb_calls' = Leave(t, "compile_mega")
                    /\ BB_GUARD' = 0
    /\ UNCHANGED <<CACHE, cache_guard, EMBEDDED_INIT, CRS_INIT, VK_REGISTRY, othervars>>

\* Mutant of RegenerateVkWritten: the guard of the backend is kept while the
\* key is hashed and the catalog updated.
RegenerateVkWritten_keeps_guard(t) ==
    /\ thread[t].pc = "regen_write_vk"
    /\ bb_calls' = Leave(t, "write_vk_mega_honk")
    /\ \E written \in BOOLEAN :
           IF written
           THEN thread' = [thread EXCEPT ![t].pc = "regen_hash",
                                         ![t].loc.vk = Vk(thread[t].loc.entry[1].acir)]
           ELSE Propagate(t, "write_vk_mega_honk failed")
    /\ UNCHANGED <<CACHE, cache_guard, EMBEDDED_INIT, CRS_INIT, VK_REGISTRY, BB_GUARD,
                   othervars>>

\* regenerate_vk: write_vk_mega_honk returns, with_bb_lock drops the guard
RegenerateVkWritten(t) ==
    /\ thread[t].pc = "regen_write_vk"
    /\ BB_GUARD' = 0
    /\ bb_calls' = Leave(t, "write_vk_mega_honk")
    /\ \E written \in BOOLEAN :
           IF written
           THEN thread' = [thread EXCEPT ![t].pc = "regen_hash",
                                         ![t].loc.vk = Vk(thread[t].loc.entry[1].acir)]
           ELSE Propagate(t, "write_vk_mega_honk failed")
    /\ UNCHANGED <<CACHE, cache_guard, EMBEDDED_INIT, CRS_INIT, VK_REGISTRY, othervars>>

\* regenerate_vk: mega_vk_hash is called
RegenerateVkHash(t) ==
    /\ thread[t].pc = "regen_hash"
    /\ bb_calls' = Enter(t, "mega_vk_hash")
    /\ thread' = [thread EXCEPT ![t].pc = "regen_hashed"]
    /\ UNCHANGED <<CACHE, cache_guard, EMBEDDED_INIT, CRS_INIT, VK_REGISTRY, BB_GUARD,
                   othervars>>

\* regenerate_vk: mega_vk_hash returns
RegenerateVkHashed(t) ==
    /\ thread[t].pc = "regen_hashed"
    /\ bb_calls' = Leave(t, "mega_vk_hash")
    /\ \E hashed \in BOOLEAN :
           IF hashed
           THEN thread' = [thread EXCEPT ![t].pc = "regen_update"]
           ELSE Propagate(t, "mega_vk_hash failed")
    /\ UNCHANGED <<CACHE, cache_guard, EMBEDDED_INIT, CRS_INIT, VK_REGISTRY, BB_GUARD,
                   othervars>>

\* regenerate_vk: catalog::update_vk and Ok(vk.0), to the caller or into
\* get_vk_bytes_by_id
RegenerateVkUpdate(t) ==
    /\ thread[t].pc = "regen_update"
    /\ cache_guard = 0
    /\ LET vk == thread[t].loc.vk
       IN  /\ CACHE' = update_vk(CACHE, thread[t].loc.name, vk, Some(VkHash(vk)),
                                 thread[t].loc.key_id)
           /\ IF thread[t].stack = <<>>
              THEN thread' = [thread EXCEPT ![t] = Returned(t, Ok(vk))]
              ELSE thread' = [thread EXCEPT ![t].pc = Head(thread[t].stack),
                                            ![t].stack = Tail(@)]
    /\ UNCHANGED <<cache_guard, EMBEDDED_INIT, CRS_INIT, VK_REGISTRY, BB_GUARD, bb_calls,
                   othervars>>

\* get_vk_bytes_by_id: the entry is read again and its key_id compared
GetVkBytesRefreshed(t) ==
    /\ thread[t].pc = "gvb_refreshed"
    /\ cache_guard = 0
    /\ LET refreshed == get(CACHE, thread[t].loc.name)
       IN  IF refreshed = None
           THEN Propagate(t, "circuit missing after regeneration")
           ELSE IF refreshed[1].key_id # thread[t].arg
           THEN Propagate(t, "verifying key id changed after regeneration")
           ELSE GetVkBytesReturns(t, Ok(thread[t].loc.vk))
    /\ UNCHANGED <<CACHE, cache_guard, EMBEDDED_INIT, CRS_INIT, VK_REGISTRY, BB_GUARD,
                   bb_calls, othervars>>

\* get_vk_hash_by_id is called: ensure_crs
CallGetVkHashById(t, vk_id) ==
    /\ CanCallVk(t)
    /\ thread' = [thread EXCEPT ![t] =
                      [Called(t, "get_vk_hash_by_id", vk_id, "gvh_lookup")
                          EXCEPT !.loc = Locals]]
    /\ CRS_INIT' = TRUE
    /\ bb_calls' = [bb_calls EXCEPT !.started = @ + 1]
    /\ UNCHANGED <<CACHE, cache_guard, EMBEDDED_INIT, VK_REGISTRY, BB_GUARD, othervars>>

\* get_vk_hash_by_id: get_circuit_by_key_id; a cached hash is returned, a
\* missing one sends the call into get_vk_bytes_by_id; without an entry the
\* registry is asked
GetVkHashLookup(t) ==
    /\ thread[t].pc = "gvh_lookup"
    /\ cache_guard = 0
    /\ LET vk_id == thread[t].arg
           found == get_circuit_by_key_id(CACHE, vk_id)
           vk_entry == get_vk_entry_by_id(VK_REGISTRY, vk_id)
       IN  IF found # {}
           THEN \E entry \in found :
                    IF entry.vk_hash # None
                    THEN thread' = [thread EXCEPT ![t] = Returned(t, Ok(entry.vk_hash[1]))]
                    ELSE thread' = [thread EXCEPT ![t].pc = "gvb_lookup",
                                                  ![t].loc.hentry = Some(entry),
                                                  ![t].stack = <<"gvh_hash">>]
           ELSE IF vk_entry # None
           THEN IF vk_entry[1].hash # None
                THEN thread' = [thread EXCEPT ![t] = Returned(t, Ok(vk_entry[1].hash[1]))]
                ELSE IF vk_entry[1].bytes = ""
                THEN Propagate(t, "verifying key bytes missing for id")
                ELSE thread' = [thread EXCEPT ![t].pc = "gvh_hash",
                                              ![t].loc.vk = vk_entry[1].bytes]
           ELSE Propagate(t, "unknown verifying key id")
    /\ UNCHANGED <<CACHE, cache_guard, EMBEDDED_INIT, CRS_INIT, VK_REGISTRY, BB_GUARD,
                   bb_calls, othervars>>

\* get_vk_hash_by_id: mega_vk_hash is called on the bytes
GetVkHashHash(t) ==
    /\ thread[t].pc = "gvh_hash"
    /\ bb_calls' = Enter(t, "mega_vk_hash")
    /\ thread' = [thread EXCEPT ![t].pc = "gvh_hashed"]
    /\ UNCHANGED <<CACHE, cache_guard, EMBEDDED_INIT, CRS_INIT, VK_REGISTRY, BB_GUARD,
                   othervars>>

\* get_vk_hash_by_id: mega_vk_hash returns; the hash is stored with
\* catalog::update_vk, or with upsert_vk_entry for a key of the registry, and
\* returned
GetVkHashHashed(t) ==
    /\ thread[t].pc = "gvh_hashed"
    /\ cache_guard = 0
    /\ bb_calls' = Leave(t, "mega_vk_hash")
    /\ LET vk_bytes == thread[t].loc.vk
           hentry == thread[t].loc.hentry
       IN  \E hashed \in BOOLEAN :
               IF ~hashed
               THEN /\ Propagate(t, "mega_vk_hash failed")
                    /\ UNCHANGED <<CACHE, VK_REGISTRY>>
               ELSE /\ thread' = [thread EXCEPT ![t] = Returned(t, Ok(VkHash(vk_bytes)))]
                    /\ IF hentry # None
                       THEN /\ CACHE' = update_vk(CACHE, hentry[1].name, vk_bytes,
                                                  Some(VkHash(vk_bytes)), None)
                            /\ UNCHANGED VK_REGISTRY
                       ELSE /\ VK_REGISTRY' = upsert_vk_entry(VK_REGISTRY, thread[t].arg,
                                                  vk_bytes, Some(VkHash(vk_bytes)))
                            /\ UNCHANGED CACHE
    /\ UNCHANGED <<cache_guard, EMBEDDED_INIT, CRS_INIT, BB_GUARD, othervars>>

\* names the callers of the prover pass
ProverNames == { SPEND_CIRCUIT, "unregistered" }

\* prover::get_key_id, called and returned
GetKeyId(t, name) ==
    /\ CanCallVk(t)
    /\ cache_guard = 0
    /\ LET ent == get(CACHE, name)
       IN  thread' = [thread EXCEPT ![t] =
               [IdleThread EXCEPT
                   !.op = "get_key_id", !.arg = name,
                   !.ret = IF ent = None THEN Err("circuit not initialized")
                           ELSE Ok(ent[1].key_id),
                   !.before = [cache |-> CACHE, made |-> bb_calls.made]]]
    /\ bb_calls' = [bb_calls EXCEPT !.started = @ + 1]
    /\ UNCHANGED <<CACHE, cache_guard, EMBEDDED_INIT, CRS_INIT, VK_REGISTRY, BB_GUARD,
                   othervars>>

\* the functions that look a circuit up by name and hand it to the backend
ProveFns == { "prove", "prove_with_all_inputs", "verify" }

\* prove, prove_with_all_inputs or verify is called
CallProve(t, fn, name) ==
    /\ CanCallVk(t)
    /\ thread' = [thread EXCEPT ![t] =
                      [Called(t, fn, name, "prove_get") EXCEPT !.loc = Locals]]
    /\ bb_calls' = [bb_calls EXCEPT !.started = @ + 1]
    /\ UNCHANGED <<CACHE, cache_guard, EMBEDDED_INIT, CRS_INIT, VK_REGISTRY, BB_GUARD,
                   othervars>>

\* prove, prove_with_all_inputs, verify: get_circuit(name); the two provers
\* then lay out the inputs and solve the witness, which may fail
ProveGet(t) ==
    /\ thread[t].pc = "prove_get"
    /\ cache_guard = 0
    /\ LET ent == get(CACHE, thread[t].arg)
       IN  IF ent = None
           THEN Propagate(t, "circuit not initialized")
           ELSE \E solved \in IF thread[t].op = "verify" THEN {TRUE} ELSE BOOLEAN :
                    IF solved
                    THEN thread' = [thread EXCEPT ![t].pc = "prove_lock",
                                                  ![t].loc.entry = ent]
                    ELSE Propagate(t, "witness")
    /\ UNCHANGED <<CACHE, cache_guard, EMBEDDED_INIT, CRS_INIT, VK_REGISTRY, BB_GUARD,
                   bb_calls, othervars>>

\* with_bb_lock takes BB_GUARD and calls prove_with_id or verify_with_id
ProveLock(t) ==
    /\ thread[t].pc = "prove_lock"
    /\ BB_GUARD = 0
    /\ BB_GUARD' = t
    /\ bb_calls' = Enter(t, IF thread[t].op = "verify" THEN "verify_with_id"
                            ELSE "prove_with_id")
    /\ thread' = [thread EXCEPT ![t].pc = "prove_call"]
    /\ UNCHANGED <<CACHE, cache_guard, EMBEDDED_INIT, CRS_INIT, VK_REGISTRY, othervars>>

\* prove_with_id or verify_with_id returns, with_bb_lock drops the guard
ProveReturns(t) ==
    /\ thread[t].pc = "prove_call"
    /\ BB_GUARD' = 0
    /\ bb_calls' = Leave(t, IF thread[t].op = "verify" THEN "verify_with_id"
                            ELSE "prove_with_id")
    /\ \E res \in { Ok(thread[t].loc.entry[1].key_id), Err("backend") } :
           thread' = [thread EXCEPT ![t] = Returned(t, res)]
    /\ UNCHANGED <<CACHE, cache_guard, EMBEDDED_INIT, CRS_INIT, VK_REGISTRY, othervars>>

(***************************************************************************)
(* Registration by the caller: prover::init_circuit_from_artifacts and     *)
(* catalog::insert, under the name of an embedded circuit and for another  *)
(* circuit.                                                                *)
(***************************************************************************)
OtherAcir == "other.acir"

\* catalog::insert, called and returned
Insert(t, entry) ==
    /\ CanCallVk(t)
    /\ cache_guard = 0
    /\ CACHE' = insert(CACHE, entry)
    /\ thread' = [thread EXCEPT ![t] =
                      [IdleThread EXCEPT !.op = "insert", !.arg = entry,
                                         !.ret = Ok(<<>>),
                                         !.before = [cache |-> CACHE,
                                                     made |-> bb_calls.made]]]
    /\ bb_calls' = [bb_calls EXCEPT !.started = @ + 1]
    /\ UNCHANGED <<cache_guard, EMBEDDED_INIT, CRS_INIT, VK_REGISTRY, BB_GUARD, othervars>>

\* init_circuit_from_artifacts is called: ensure_crs and the ABI, which may
\* not parse
CallInitCircuitFromArtifacts(t, name, acir, vk) ==
    /\ CanCallVk(t)
    /\ \E parsed \in BOOLEAN :
           thread' = [thread EXCEPT ![t] =
               IF parsed
               THEN [Called(t, "init_circuit_from_artifacts", <<name, acir, vk>>,
                            "ica_lock")
                        EXCEPT !.loc = [Locals EXCEPT !.name = name, !.vk = vk]]
               ELSE [Called(t, "init_circuit_from_artifacts", <<name, acir, vk>>,
                            "idle")
                        EXCEPT !.ret = Err("parsing ABI for " \o name)]]
    /\ CRS_INIT' = TRUE
    /\ bb_calls' = [bb_calls EXCEPT !.started = @ + 1]
    /\ UNCHANGED <<CACHE, cache_guard, EMBEDDED_INIT, VK_REGISTRY, BB_GUARD, othervars>>

\* init_circuit_from_artifacts: with_bb_lock takes BB_GUARD and calls
\* compile_mega
InitCircuitCompile(t) ==
    /\ thread[t].pc = "ica_lock"
    /\ BB_GUARD = 0
    /\ BB_GUARD' = t
    /\ bb_calls' = Enter(t, "compile_mega")
    /\ thread' = [thread EXCEPT ![t].pc = "ica_compile"]
    /\ UNCHANGED <<CACHE, cache_guard, EMBEDDED_INIT, CRS_INIT, VK_REGISTRY, othervars>>

\* init_circuit_from_artifacts: compile_mega returns, with_bb_lock drops the
\* guard
InitCircuitCompiled(t) ==
    /\ thread[t].pc = "ica_compile"
    /\ BB_GUARD' = 0
    /\ bb_calls' = Leave(t, "compile_mega")
    /\ \E compiled \in BOOLEAN :
           IF compiled
           THEN thread' = [thread EXCEPT
                    ![t].pc = IF thread[t].loc.vk = "" THEN "ica_lock_vk" ELSE "ica_hash",
                    ![t].loc.key_id = Some(KeyId(thread[t].arg[2]))]
           ELSE Propagate(t, "compile_mega for " \o thread[t].loc.name)
    /\ UNCHANGED <<CACHE, cache_guard, EMBEDDED_INIT, CRS_INIT, VK_REGISTRY, othervars>>

\* init_circuit_from_artifacts: with_bb_lock takes BB_GUARD and calls
\* write_vk_mega_honk
InitCircuitWriteVk(t) ==
    /\ thread[t].pc = "ica_lock_vk"
    /\ BB_GUARD = 0
    /\ BB_GUARD' = t
    /\ bb_calls' = Enter(t, "write_vk_mega_honk")
    /\ thread' = [thread EXCEPT ![t].pc = "ica_write_vk"]
    /\ UNCHANGED <<CACHE, cache_guard, EMBEDDED_INIT, CRS_INIT, VK_REGISTRY, othervars>>

\* init_circuit_from_artifacts: write_vk_mega_honk returns, with_bb_lock
\* drops the guard
InitCircuitWritten(t) ==
    /\ thread[t].pc = "ica_write_vk"
    /\ BB_GUARD' = 0
    /\ bb_calls' = Leave(t, "write_vk_mega_honk")
    /\ \E written \in BOOLEAN :
           IF written
           THEN thread' = [thread EXCEPT ![t].pc = "ica_hash",
                                         ![t].loc.vk = Vk(thread[t].arg[2])]
           ELSE Propagate(t, "write_vk_mega_honk failed")
    /\ UNCHANGED <<CACHE, cache_guard, EMBEDDED_INIT, CRS_INIT, VK_REGISTRY, othervars>>

\* init_circuit_from_artifacts: mega_vk_hash is called
InitCircuitHash(t) ==
    /\ thread[t].pc = "ica_hash"
    /\ bb_calls' = Enter(t, "mega_vk_hash")
    /\ thread' = [thread EXCEPT ![t].pc = "ica_hashed"]
    /\ UNCHANGED <<CACHE, cache_guard, EMBEDDED_INIT, CRS_INIT, VK_REGISTRY, BB_GUARD,
                   othervars>>

\* init_circuit_from_artifacts: mega_vk_hash returns
InitCircuitHashed(t) ==
    /\ thread[t].pc = "ica_hashed"
    /\ bb_calls' = Leave(t, "mega_vk_hash")
    /\ \E hashed \in BOOLEAN :
           IF hashed
           THEN thread' = [thread EXCEPT ![t].pc = "ica_insert"]
           ELSE Propagate(t, "mega_vk_hash failed")
    /\ UNCHANGED <<CACHE, cache_guard, EMBEDDED_INIT, CRS_INIT, VK_REGISTRY, BB_GUARD,
                   othervars>>

\* init_circuit_from_artifacts: catalog::insert and Ok(())
InitCircuitInsert(t) ==
    /\ thread[t].pc = "ica_insert"
    /\ cache_guard = 0
    /\ LET name == thread[t].arg[1]
           acir == thread[t].arg[2]
           vk   == thread[t].loc.vk
       IN  CACHE' = insert(CACHE, CircuitEntry(name, acir, vk, Abi(name \o ".abi.json"),
                                               thread[t].loc.key_id[1],
                                               Some(VkHash(vk))))
    /\ thread' = [thread EXCEPT ![t] = Returned(t, Ok(<<>>))]
    /\ UNCHANGED <<cache_guard, EMBEDDED_INIT, CRS_INIT, VK_REGISTRY, BB_GUARD, bb_calls,
                   othervars>>

\* arguments of update_vk
UpdateVkArgs ==
    { <<"utxo_spend", vk, vk_hash, key_id>> :
        vk \in { "", Vk(AcirOf("utxo_spend")) },
        vk_hash \in { None, Some(VkHash(Vk(AcirOf("utxo_spend")))) },
        key_id \in { None, Some(OtherKeyId(AcirOf("utxo_spend"))) } }
    \cup { <<"unregistered", Vk(AcirOf("utxo_spend")),
             Some(VkHash(Vk(AcirOf("utxo_spend")))), None>> }

InitVk ==
    /\ scenario = "vk"
    /\ CACHE \in CatalogPool
    /\ EMBEDDED_INIT = OnceLock("incomplete", <<>>)
    /\ VK_REGISTRY \in RegistryPool
    /\ InitThreads
    /\ InitNoBatch

NextVk ==
    \E t \in Threads :
        \/ \E a \in UpdateVkArgs : UpdateVk(t, a[1], a[2], a[3], a[4])
        \/ \E vk_id \in VkIds : CallGetVkBytesById(t, vk_id)
        \/ GetVkBytesLookup(t)
        \/ \E name \in CircuitNames : CallRegenerateVk(t, name)
        \/ RegenerateVkGet(t)
        \/ RegenerateVkCompile(t)
        \/ RegenerateVkWriteVk(t)
        \/ RegenerateVkWritten(t)
        \/ RegenerateVkHash(t)
        \/ RegenerateVkHashed(t)
        \/ RegenerateVkUpdate(t)
        \/ GetVkBytesRefreshed(t)
        \/ \E vk_id \in VkIds : CallGetVkHashById(t, vk_id)
        \/ GetVkHashLookup(t)
        \/ GetVkHashHash(t)
        \/ GetVkHashHashed(t)
        \/ \E name \in ProverNames : GetKeyId(t, name)
        \/ \E fn \in ProveFns, name \in ProverNames : CallProve(t, fn, name)
        \/ ProveGet(t)
        \/ ProveLock(t)
        \/ ProveReturns(t)

SpecVk == InitVk /\ [][NextVk]_vars

(***************************************************************************)
(* The calls of the prover and of the catalog on two threads at once.      *)
(* Every thread makes one call; utxo_spend was registered before, in any   *)
(* of the states an entry can have, and the bootstrap has not run yet.     *)
(***************************************************************************)
SpendId == KeyId(AcirOf(SPEND_CIRCUIT))

\* a complete entry for another circuit under the name of utxo_spend
OtherEntry ==
    CircuitEntry(SPEND_CIRCUIT, OtherAcir, Vk(OtherAcir), Abi("other.abi.json"),
                 KeyId(OtherAcir), Some(VkHash(Vk(OtherAcir))))

InitConc ==
    /\ scenario = "conc"
    /\ CACHE \in { insert(EmptyMap, e) : e \in EntryPool(SPEND_CIRCUIT) }
    /\ EMBEDDED_INIT = OnceLock("incomplete", <<>>)
    /\ VK_REGISTRY = EmptyMap
    /\ InitThreads
    /\ InitNoBatch

\* the threads of this scenario
ConcThreads == { 1, 2 }

NextConc ==
    \E t \in ConcThreads :
        \/ CallInitEmbeddedCatalog(t)
        \/ GetOrInit(t)
        \/ InitEmbeddedLock(t)
        \/ InitEmbeddedParseAbi(t)
        \/ InitEmbeddedCompile(t)
        \/ InitEmbeddedCompiled(t)
        \/ InitEmbeddedVkHash(t)
        \/ InitEmbeddedVkHashed(t)
        \/ InitEmbeddedInsert(t)
        \/ InitEmbeddedCatalogMatch(t)
        \/ Clear(t)
        \/ Insert(t, OtherEntry)
        \/ \E vk \in { "", Vk(OtherAcir) } :
               CallInitCircuitFromArtifacts(t, SPEND_CIRCUIT, OtherAcir, vk)
        \/ InitCircuitCompile(t)
        \/ InitCircuitCompiled(t)
        \/ InitCircuitWriteVk(t)
        \/ InitCircuitWritten(t)
        \/ InitCircuitHash(t)
        \/ InitCircuitHashed(t)
        \/ InitCircuitInsert(t)
        \/ UpdateVk(t, SPEND_CIRCUIT, Vk(AcirOf(SPEND_CIRCUIT)),
                    Some(VkHash(Vk(AcirOf(SPEND_CIRCUIT)))), None)
        \/ CallGetVkBytesById(t, SpendId)
        \/ GetVkBytesLookup(t)
        \/ CallRegenerateVk(t, SPEND_CIRCUIT)
        \/ RegenerateVkGet(t)
        \/ RegenerateVkCompile(t)
        \/ RegenerateVkWriteVk(t)
        \/ RegenerateVkWritten(t)
        \/ RegenerateVkHash(t)
        \/ RegenerateVkHashed(t)
        \/ RegenerateVkUpdate(t)
        \/ GetVkBytesRefreshed(t)
        \/ CallGetVkHashById(t, SpendId)
        \/ GetVkHashLookup(t)
        \/ GetVkHashHash(t)
        \/ GetVkHashHashed(t)
        \/ GetKeyId(t, SPEND_CIRCUIT)
        \/ \E fn \in { "prove", "verify" } : CallProve(t, fn, SPEND_CIRCUIT)
        \/ ProveGet(t)
        \/ ProveLock(t)
        \/ ProveReturns(t)

SpecConc == InitConc /\ [][NextConc]_vars

(***************************************************************************)
(* init_embedded_catalog called again, after calls that changed the        *)
(* catalog.  The calls of this scenario are made one after another.        *)
(***************************************************************************)
\* an entry under a name of the caller's own
CustomEntry ==
    CircuitEntry("custom", OtherAcir, Vk(OtherAcir), Abi("other.abi.json"),
                 KeyId(OtherAcir), Some(VkHash(Vk(OtherAcir))))

InitReinit ==
    /\ scenario = "reinit"
    /\ CACHE = EmptyMap
    /\ EMBEDDED_INIT = OnceLock("incomplete", <<>>)
    /\ VK_REGISTRY = EmptyMap
    /\ InitThreads
    /\ InitNoBatch

NextReinit ==
    \E t \in Threads :
        \/ CallInitEmbeddedCatalog(t)
        \/ GetOrInit(t)
        \/ InitEmbeddedLock(t)
        \/ InitEmbeddedParseAbi(t)
        \/ InitEmbeddedCompile(t)
        \/ InitEmbeddedCompiled(t)
        \/ InitEmbeddedVkHash(t)
        \/ InitEmbeddedVkHashed(t)
        \/ InitEmbeddedInsert(t)
        \/ InitEmbeddedCatalogMatch(t)
        \/ Clear(t)
        \/ \E entry \in { OtherEntry, CustomEntry } : Insert(t, entry)
        \/ \E a \in UpdateVkArgs : UpdateVk(t, a[1], a[2], a[3], a[4])

SpecReinit == InitReinit /\ [][NextReinit]_vars

\* the steps of a call that has started
Step(t) ==
    \/ GetOrInit(t)
    \/ InitEmbeddedLock(t)
    \/ InitEmbeddedParseAbi(t)
    \/ InitEmbeddedCompile(t)
    \/ InitEmbeddedCompiled(t)
    \/ InitEmbeddedVkHash(t)
    \/ InitEmbeddedVkHashed(t)
    \/ InitEmbeddedInsert(t)
    \/ InitEmbeddedCatalogMatch(t)
    \/ InitCircuitCompile(t)
    \/ InitCircuitCompiled(t)
    \/ InitCircuitWriteVk(t)
    \/ InitCircuitWritten(t)
    \/ InitCircuitHash(t)
    \/ InitCircuitHashed(t)
    \/ InitCircuitInsert(t)
    \/ GetVkBytesLookup(t)
    \/ RegenerateVkGet(t)
    \/ RegenerateVkCompile(t)
    \/ RegenerateVkWriteVk(t)
    \/ RegenerateVkWritten(t)
    \/ RegenerateVkHash(t)
    \/ RegenerateVkHashed(t)
    \/ RegenerateVkUpdate(t)
    \/ GetVkBytesRefreshed(t)
    \/ GetVkHashLookup(t)
    \/ GetVkHashHash(t)
    \/ GetVkHashHashed(t)
    \/ ProveGet(t)
    \/ ProveLock(t)
    \/ ProveReturns(t)

\* a thread that can take a step is scheduled in the end
SpecConcFair == SpecConc /\ \A t \in ConcThreads : WF_vars(Step(t))

(***************************************************************************)
(* Properties.  Candidates of one input list carry distinct leaf ids (the  *)
(* place in the list), so a candidate is in the block exactly when a leaf  *)
(* of the block carries its id.                                            *)
(***************************************************************************)
ValidateDone == pc = "done" /\ op = "validate_and_plan_block"

FromCandidatesDone == pc = "done" /\ op = "plan_block_from_candidates"

RootDone == pc = "done" /\ op = "canonical_root_even"

\* leaves followed by deferred
Out == block.leaves \o block.deferred

InBlock(c) == \E j \in 1..Len(Out) : Out[j].leaf_id = c.leaf_id

InputSet(c) == {inputs(c.record)[k] : k \in 1..Len(inputs(c.record))}

OutputSet(c) == {outputs(c.record)[k] : k \in 1..Len(outputs(c.record))}

HashValid(c) == recompute_leaf_hash(c.record) = c.declared_leaf_hash

\* c is offered by the oracle or by a leaf of the block placed before turn b
AvailableAt(b, c) ==
    c \in membership \/ \E a \in 1..(b - 1) : InBlock(sorted[a]) /\ c \in OutputSet(sorted[a])

\* c is an input of a leaf of the block placed before turn b
ConsumedAt(b, c) ==
    \E a \in 1..(b - 1) : InBlock(sorted[a]) /\ c \in InputSet(sorted[a])

\* C1: once a candidate of the block has consumed a commitment, no later
\* candidate (in sort order) with that commitment among its inputs is in the
\* block, whatever its hash and whatever the oracle says.
C1_ConsumedOnce ==
    ValidateDone =>
        \A a, b \in 1..Len(sorted) :
            (a < b /\ InBlock(sorted[a])
                   /\ InputSet(sorted[a]) \cap InputSet(sorted[b]) # {})
                => ~InBlock(sorted[b])

\* A later candidate with a valid hash and all inputs in the oracle is kept
\* out because an earlier leaf consumed one of its inputs.
C1_Witness ==
    /\ ValidateDone
    /\ \E a, b \in 1..Len(sorted) :
           /\ a < b /\ InBlock(sorted[a]) /\ ~InBlock(sorted[b])
           /\ HashValid(sorted[b])
           /\ InputSet(sorted[b]) \subseteq membership
           /\ InputSet(sorted[a]) \cap InputSet(sorted[b]) # {}

\* C2: every input of every candidate of the block is in the oracle or is an
\* output of a candidate of the block strictly earlier in sort order (never
\* one of its own outputs).
C2_InputsAvailable ==
    ValidateDone =>
        \A b \in 1..Len(sorted) :
            InBlock(sorted[b]) => \A c \in InputSet(sorted[b]) : AvailableAt(b, c)

\* A chained spend is in the block, and a candidate whose input is only
\* among its own outputs is not.
C2_Witness ==
    /\ ValidateDone
    /\ \E b \in 1..Len(sorted) :
           InBlock(sorted[b]) /\ InputSet(sorted[b]) \cap membership = {}
    /\ \E b \in 1..Len(sorted) :
           /\ ~InBlock(sorted[b]) /\ HashValid(sorted[b])
           /\ InputSet(sorted[b]) \subseteq OutputSet(sorted[b])
           /\ \A c \in InputSet(sorted[b]) : ~AvailableAt(b, c)

\* C3: a candidate whose recomputed leaf hash differs from its declared one
\* is neither in leaves nor deferred.
C3_HashMismatchExcluded ==
    ValidateDone =>
        \A k \in 1..Len(cands) :
            recompute_leaf_hash(cands[k].record) # cands[k].declared_leaf_hash
                => ~InBlock(cands[k])

\* A candidate with a wrong declared hash whose inputs are all on offer and
\* unconsumed at its turn is left out.
C3_Witness ==
    /\ ValidateDone
    /\ \E b \in 1..Len(sorted) :
           /\ ~HashValid(sorted[b]) /\ ~InBlock(sorted[b])
           /\ \A c \in InputSet(sorted[b]) : AvailableAt(b, c) /\ ~ConsumedAt(b, c)
    /\ Len(Out) > 0

\* The candidate passes every check at its turn.
Eligible(b) ==
    /\ HashValid(sorted[b])
    /\ \A c \in InputSet(sorted[b]) : AvailableAt(b, c) /\ ~ConsumedAt(b, c)

\* C4: the call returns a block for every candidate list, and every
\* candidate that passes the checks at its turn is in the block, however
\* many were rejected before it.
C4_NeverFailsWholesale ==
    ValidateDone =>
        /\ block.block_id = BlockId
        /\ block.acceptance_root = AcceptanceRoot
        /\ Len(Out) <= Len(cands)
        /\ \A b \in 1..Len(sorted) : Eligible(b) => InBlock(sorted[b])

\* Two candidates are rejected, one for its hash and one for its inputs, and
\* a later one is in the block.
C4_Witness ==
    /\ ValidateDone
    /\ \E a, b, c \in 1..Len(sorted) :
           /\ a < b /\ b < c
           /\ ~InBlock(sorted[a]) /\ ~InBlock(sorted[b]) /\ InBlock(sorted[c])
           /\ HashValid(sorted[a]) # HashValid(sorted[b])

\* the candidate list without the candidate with leaf id i (its place)
Without(i) ==
    [k \in 1..(Len(cands) - 1) |-> IF k < i THEN cands[k] ELSE cands[k + 1]]

\* C5: a rejected candidate leaves produced, consumed and the accepted list
\* as they were, and the block is the block of the list without it.
C5_RejectedLeavesNoTrace ==
    ValidateDone =>
        \A k \in 1..Len(sorted) :
            ~InBlock(sorted[k]) =>
                /\ trace[k + 1] = trace[k]
                /\ validate_and_plan_block(BlockId, AcceptanceRoot,
                                           Without(sorted[k].leaf_id), membership)
                       = block

\* A merge is rejected at its second input only, and a later candidate that
\* consumes the merge's first input is in the block.
C5_Witness ==
    /\ ValidateDone
    /\ \E k, b \in 1..Len(sorted) :
           /\ k < b /\ ~InBlock(sorted[k]) /\ InBlock(sorted[b])
           /\ HashValid(sorted[k])
           /\ sorted[k].record.kind = "Merge"
           /\ LET c0 == sorted[k].record.in_commit0
                  c1 == sorted[k].record.in_commit1
              IN  /\ AvailableAt(k, c0) /\ ~ConsumedAt(k, c0)
                  /\ ~AvailableAt(k, c1)
                  /\ c0 \in InputSet(sorted[b])

\* the sort key order (arrival time, leaf hash bytes, publisher id)
KeyLeq(x, y) ==
    \/ x.arrival_time_ns < y.arrival_time_ns
    \/ /\ x.arrival_time_ns = y.arrival_time_ns
       /\ \/ bytes_cmp(x.declared_leaf_hash, y.declared_leaf_hash) = "Less"
          \/ /\ x.declared_leaf_hash = y.declared_leaf_hash
             /\ x.publisher_id <= y.publisher_id

\* the place in the list after the sort of the candidate with leaf id i
PlaceOf(i) == CHOOSE p \in 1..Len(sorted) : sorted[p].leaf_id = i

\* C6: leaves followed by deferred is in sort key order; from
\* plan_block_from_candidates it is the whole sorted list, from
\* validate_and_plan_block a subsequence of it, and the candidates are
\* taken in that order.
C6_SortKeyOrder ==
    (ValidateDone \/ FromCandidatesDone) =>
        /\ \A i, j \in 1..Len(Out) :
               i < j => KeyLeq(cands[Out[i].leaf_id], cands[Out[j].leaf_id])
        /\ \A j \in 1..Len(Out) :
               Out[j].leaf_hash = cands[Out[j].leaf_id].declared_leaf_hash
        /\ Len(sorted) = Len(cands)
        /\ {sorted[p].leaf_id : p \in 1..Len(sorted)} = 1..Len(cands)
        /\ \A p, q \in 1..Len(sorted) :
               p < q => KeyLeq(cands[sorted[p].leaf_id], cands[sorted[q].leaf_id])
        /\ \A i, j \in 1..Len(Out) :
               i < j => PlaceOf(Out[i].leaf_id) < PlaceOf(Out[j].leaf_id)
        /\ FromCandidatesDone =>
               /\ Len(Out) = Len(cands)
               /\ \A j \in 1..Len(Out) : Out[j].leaf_id = sorted[j].leaf_id
        /\ ValidateDone =>
               \A k \in 1..Len(sorted) :
                   \A j \in 1..Len(trace[k].leaves) :
                       PlaceOf(trace[k].leaves[j].leaf_id) < k

\* Three candidates handed over out of order: two tie on arrival time and
\* hash and differ in publisher, the third arrived earlier or later.
C6_Witness ==
    /\ FromCandidatesDone
    /\ Len(Out) = 3
    /\ \E i, j \in 1..Len(cands) :
           /\ i < j
           /\ cands[i].arrival_time_ns = cands[j].arrival_time_ns
           /\ cands[i].declared_leaf_hash = cands[j].declared_leaf_hash
           /\ cands[i].publisher_id > cands[j].publisher_id
    /\ \E i, j \in 1..Len(cands) :
           i < j /\ cands[i].arrival_time_ns > cands[j].arrival_time_ns

Reorderings(n) == {f \in [1..n -> 1..n] : \A i, j \in 1..n : f[i] = f[j] => i = j}

\* C7: the block does not depend on the order in which the candidates are
\* handed over: every permutation of the list gives the same block.
C7_ReplayStable ==
    /\ ValidateDone =>
           \A f \in Reorderings(Len(cands)) :
               validate_and_plan_block(BlockId, AcceptanceRoot,
                   [k \in 1..Len(cands) |-> cands[f[k]]], membership) = block
    /\ FromCandidatesDone =>
           \A f \in Reorderings(Len(cands)) :
               plan_block_from_candidates(BlockId, AcceptanceRoot,
                   [k \in 1..Len(cands) |-> as_candidate_leaf(cands[f[k]])]) = block

\* C8: plan_block keeps the first N - (N mod 2) leaves in order and defers
\* the last one exactly when N is odd; leaves has even length, at most one
\* leaf is deferred, none is lost or duplicated.
C8_PairComplete ==
    (pc = "done" /\ scenario = "batch") =>
        LET n == Len(ordered)
        IN  /\ block.leaves = SubSeq(ordered, 1, n - (n % 2))
            /\ block.deferred = IF n % 2 = 1 THEN <<ordered[n]>> ELSE <<>>
            /\ Len(block.leaves) % 2 = 0
            /\ Len(block.deferred) <= 1
            /\ Out = ordered
            /\ op = "plan_block" =>
                   /\ n = Len(cands)
                   /\ \A k \in 1..n : ordered[k].leaf_id = k

\* Three leaves: two stay, the third is deferred.
C8_Witness ==
    /\ pc = "done" /\ op = "plan_block"
    /\ Len(ordered) = 3
    /\ Len(block.leaves) = 2
    /\ block.deferred = <<ordered[3]>>

\* C9: canonical_root_even is None for the empty and for every odd-length
\* list and Some for every other list; the arm that returns None from
\* inside the fold is never taken.
C9_RootSomeIffEven ==
    RootDone =>
        /\ (root = None) <=> (Len(hashes) = 0 \/ Len(hashes) % 2 = 1)
        /\ Len(root) <= 1
        /\ ~fallback

\* Six hashes: a level of three is folded and a root comes back.
C9_Witness == RootDone /\ Len(hashes) = 6 /\ root # None

\* hs with the two leaves of pair j exchanged
SwapPair(hs, j) ==
    [k \in 1..Len(hs) |-> IF k = 2 * j - 1 THEN hs[2 * j]
                          ELSE IF k = 2 * j THEN hs[2 * j - 1] ELSE hs[k]]

\* C10: the fold follows input order: the root of two hashes is h2(h0, h1),
\* of four h2(h2(h0, h1), h2(h2, h3)), and exchanging the two (different)
\* leaves of any pair changes the root.
C10_FoldsByInputOrder ==
    (RootDone /\ Len(hashes) > 0 /\ Len(hashes) % 2 = 0) =>
        /\ Len(hashes) = 2 => root = Some(h2(hashes[1], hashes[2]))
        /\ Len(hashes) = 4 =>
               root = Some(h2(h2(hashes[1], hashes[2]), h2(hashes[3], hashes[4])))
        /\ \A j \in 1..(Len(hashes) \div 2) :
               hashes[2 * j - 1] # hashes[2 * j]
                   => canonical_root_even(SwapPair(hashes, j)) # root

\* hs with the hash at place k replaced by h
ReplaceLeaf(hs, k, h) == [j \in 1..Len(hs) |-> IF j = k THEN h ELSE hs[j]]

\* C11: for every non-empty even list the root depends on every leaf hash:
\* replacing any single leaf hash by a different one changes the root.
C11_RootBindsEveryLeaf ==
    (RootDone /\ Len(hashes) > 0 /\ Len(hashes) % 2 = 0) =>
        \A k \in 1..Len(hashes) : \A h \in HashPool \ {hashes[k]} :
            canonical_root_even(ReplaceLeaf(hashes, k, h)) # root

ManifestHashDone == pc = "done" /\ op = "manifest_hash"

BlockRootDone == pc = "done" /\ op = "BindingBlock::canonical_root_even"

\* the blocks that agree with b on block_id, acceptance_root and the leaf
\* hashes in order: any leaf ids, any deferred leaf
SameBinding(b) ==
    { [b EXCEPT !.deferred = d,
                !.leaves = <<>> \o [k \in 1..Len(b.leaves) |->
                                       BindingLeaf(ids[k], b.leaves[k].leaf_hash)]] :
          d \in DeferredPool, ids \in [1..Len(b.leaves) -> LeafIdPool] }

\* the even prefix of a leaf list
EvenPrefix(ls) == SubSeq(ls, 1, Len(ls) - (Len(ls) % 2))

\* C12: manifest_hash and canonical_root_even of a block are hash_manifest
\* and canonical_root_even of (block_id, acceptance_root, leaf hashes of
\* leaves in order), the same for every block that agrees on these three
\* whatever its leaf ids and deferred leaf; for the block plan_block returns
\* they are those of the even prefix of the planned list.
C12_BlockHashesBindLeaves ==
    LET hs      == leaf_hashes(block.leaves)
        all     == block.leaves \o block.deferred
        planned == plan_block(block.block_id, block.acceptance_root, all)
    IN  /\ ManifestHashDone =>
               /\ hash_out = hash_manifest(block.block_id, block.acceptance_root, hs)
               /\ \A b \in SameBinding(block) : manifest_hash(b) = hash_out
               /\ manifest_hash(planned)
                      = hash_manifest(block.block_id, block.acceptance_root,
                                      leaf_hashes(EvenPrefix(all)))
        /\ BlockRootDone =>
               /\ root = canonical_root_even(hs)
               /\ \A b \in SameBinding(block) :
                      BindingBlock_canonical_root_even(b) = root
               /\ BindingBlock_canonical_root_even(planned)
                      = canonical_root_even(leaf_hashes(EvenPrefix(all)))

\* The manifest hash of a block with two leaves and a deferred leaf whose
\* hash is not among theirs.
C12_Witness ==
    /\ ManifestHashDone
    /\ Len(block.leaves) = 2
    /\ block.deferred # None
    /\ \A k \in 1..2 : block.leaves[k].leaf_hash # block.deferred[1].leaf_hash
    /\ block.leaves[1].leaf_id # block.leaves[2].leaf_id

HashManifestDone == pc = "done" /\ op = "hash_manifest"

HashFieldsDone == pc = "done" /\ op = "hash_fields"

PairwiseDistinct(xs) == \A i, j \in 1..Len(xs) : xs[i] = xs[j] => i = j

\* lists of other lengths: the prefixes of xs, xs with one more element, and
\* the lists of zeros
OtherLengths(xs) ==
    { l \in { SubSeq(xs, 1, m) : m \in 0..Len(xs) }
            \cup { Append(xs, x) : x \in InputPool }
            \cup { [k \in 1..m |-> Zero] : m \in 0..MaxInputs } :
        Len(l) # Len(xs) }

\* C13: with block_id and acceptance_root fixed, a list of pairwise distinct
\* leaf hashes in any other order has another manifest hash, and so has a
\* list of another length.
C13_ManifestOrderSensitive ==
    HashManifestDone =>
        /\ PairwiseDistinct(hashes) =>
               \A f \in Reorderings(Len(hashes)) :
                   LET xs == [k \in 1..Len(hashes) |-> hashes[f[k]]]
                   IN  xs # hashes
                         => hash_manifest(BlockId, AcceptanceRoot, xs) # hash_out
        /\ \A l \in OtherLengths(hashes) :
               hash_manifest(BlockId, AcceptanceRoot, l) # hash_out

\* The manifest hash of three pairwise distinct leaf hashes.
C13_Witness ==
    HashManifestDone /\ Len(hashes) = 3 /\ PairwiseDistinct(hashes)

\* The reference sponge: the number of blocks of n inputs, input i padded
\* with zero, and the state after b blocks.
RefBlocks(n) == IF n = 0 THEN 1 ELSE (n + 2) \div 3

RefInput(xs, i) == IF i <= Len(xs) THEN xs[i] ELSE Zero

RECURSIVE RefState(_, _)
RefState(xs, b) ==
    IF b = 0 THEN <<Zero, Zero, Zero, two_pow_64_times(Len(xs))>>
    ELSE LET st == RefState(xs, b - 1)
         IN  permute4(<<fr_add(st[1], RefInput(xs, 3 * b - 2)),
                        fr_add(st[2], RefInput(xs, 3 * b - 1)),
                        fr_add(st[3], RefInput(xs, 3 * b)),
                        st[4]>>)

\* C14: hash_fields is the reference sponge: from [0, 0, 0, 2^64 * n], every
\* block of 3 inputs (the last padded with zero) is added into state[0..3]
\* and permuted once, and state[0] is returned; the permutation is applied
\* max(1, ceil(n / 3)) times, and equal inputs give equal outputs.
C14_HashFieldsIsSponge ==
    HashFieldsDone =>
        /\ hash_out = RefState(hashes, RefBlocks(Len(hashes)))[1]
        /\ permutes = RefBlocks(Len(hashes))
        /\ hash_fields(hashes) = hash_out

\* Six inputs: a full block absorbed inside the loop and a full last block.
C14_Witness == HashFieldsDone /\ Len(hashes) = 6 /\ permutes = 2

(***************************************************************************)
(* Properties of the transaction builder.                                  *)
(***************************************************************************)
SpendCalled == scenario = "tx" /\ request.kind = "spend" /\ pc # "input"

MergeCalled == scenario = "tx" /\ request.kind = "merge" /\ pc # "input"

SpendReturned == SpendCalled /\ pc \in {"done", "bound"} /\ result.ok

MergeReturned == MergeCalled /\ pc \in {"done", "bound"} /\ result.ok

\* the call returned an error before it sampled a salt or called anything
AbortedEarly ==
    /\ pc = "done" /\ ~result.ok
    /\ locals = <<>> /\ salts = <<>> /\ prepared = <<>>
    /\ effects = {} /\ reported = {}

\* C15: the leaf hash of a returned SpendTx (MergeTx) is the recomputed leaf
\* hash of the LeafRecord made of the commitments of its inputs, its expected
\* output commitments and its transfer fields, so the leaf from_spend
\* (from_merge) builds passes the planner's hash check with that record.
C15_LeafHashMatchesRecord ==
    (scenario = "tx" /\ pc = "bound") =>
        LET tx     == result.val
            record == IF request.kind = "spend"
                      THEN Spend(commitment(tx.input.utxo),
                                 tx.expected_out_commits[1], tx.expected_out_commits[2],
                                 tx.transfer_token, tx.transfer_amount, tx.fee_amount)
                      ELSE Merge(commitment(tx.inputs[1].utxo),
                                 commitment(tx.inputs[2].utxo), tx.expected_out_commit)
            leaf   == ordered[1]
        IN  /\ leaf.leaf_hash = recompute_leaf_hash(record)
            /\ \A key \in KeyPool :
                   hash_matches(Candidate(leaf.leaf_id, key, record, leaf.leaf_hash))
            /\ validate_and_plan_block(BlockId, AcceptanceRoot,
                   <<Candidate(leaf.leaf_id, <<0, 0>>, record, leaf.leaf_hash)>>,
                   {inputs(record)[k] : k \in 1..Len(inputs(record))}).deferred
                 = Some(leaf)

\* A leaf built from a SpendTx whose two output commitments differ.
C15_Witness ==
    /\ scenario = "tx" /\ pc = "bound" /\ request.kind = "spend"
    /\ result.val.expected_out_commits[1] # result.val.expected_out_commits[2]
    /\ result.val.transfer_amount # result.val.fee_amount

\* the slots of the input whose token is the transfer token
MatchingSlots(req) ==
    {i \in 0..(MAX_ASSETS - 1) : req.input.utxo.assets[i + 1].token = req.transfer_token}

TheSlot(req) == CHOOSE i \in MatchingSlots(req) : TRUE

SpendKeysOk(req) ==
    /\ req.signer.pk_x = req.input.signer.pk_x
    /\ req.signer.pk_y = req.input.signer.pk_y
    /\ req.input.utxo.recipient_pk_x = req.signer.pk_x

InAmount(req, i) == req.input.utxo.assets[i + 1].amount

\* the funds of the input do not cover the request
Shortfall(req) ==
    IF TheSlot(req) = 0
    THEN fr_cmp(InAmount(req, 0), fr_add(req.transfer_amount, req.fee_amount)) = "Less"
    ELSE \/ fr_cmp(InAmount(req, TheSlot(req)), req.transfer_amount) = "Less"
         \/ fr_cmp(InAmount(req, 0), req.fee_amount) = "Less"

InsufficientFunds ==
    { "insufficient funds for transfer and fee", "insufficient funds for transfer",
      "insufficient funds to pay fee from slot 0" }

\* C16: prove_spend goes on past its funds checks exactly when there is no
\* shortfall (slot 0: in[0] >= transfer + fee; otherwise in[slot] >= transfer
\* and in[0] >= fee, either shortfall failing the call); then remainder[0] =
\* in[0] - transfer - fee, or remainder[slot] = in[slot] - transfer and
\* remainder[0] = in[0] - fee; the other remainder amounts and all remainder
\* tokens are the input's; the receiver has (transfer_token, transfer_amount)
\* in the transfer slot and zero elsewhere; the returned UTXOs carry these.
C16_RemainderBySlot ==
    (SpendCalled /\ SpendKeysOk(request) /\ Cardinality(MatchingSlots(request)) = 1) =>
        LET s   == TheSlot(request)
            t   == request.transfer_amount
            f   == request.fee_amount
            rem == locals.remainder_amounts
        IN  /\ Shortfall(request) =>
                   /\ AbortedEarly
                   /\ result.val \in InsufficientFunds
                          \cup {"circuit utxo_spend is not registered"}
            /\ (~Shortfall(request) /\ ~AbortedEarly) =>
                   /\ locals.transfer_slot = s
                   /\ s = 0 => rem[1] = fr_sub(fr_sub(InAmount(request, 0), t), f)
                   /\ s # 0 => /\ rem[s + 1] = fr_sub(InAmount(request, s), t)
                               /\ rem[1] = fr_sub(InAmount(request, 0), f)
                   /\ \A i \in 0..(MAX_ASSETS - 1) :
                          /\ (i # s /\ i # 0) => rem[i + 1] = InAmount(request, i)
                          /\ locals.remainder_tokens[i + 1]
                                 = request.input.utxo.assets[i + 1].token
                          /\ locals.receiver_tokens[i + 1]
                                 = IF i = s THEN request.transfer_token ELSE Zero
                          /\ locals.receiver_amounts[i + 1] = IF i = s THEN t ELSE Zero
                   /\ (InAmount(request, 0) = Lit(100) /\ s = 0 /\ t = Lit(40)
                           /\ f = Lit(2)) => rem[1] = Lit(58)
            /\ (~Shortfall(request) /\ pc = "done" /\ ~result.ok) =>
                   result.val \notin InsufficientFunds
            /\ SpendReturned =>
                   \A i \in 1..MAX_ASSETS :
                       /\ result.val.outputs.remainder.assets[i]
                              = Asset(locals.remainder_tokens[i], rem[i])
                       /\ result.val.outputs.receiver.assets[i]
                              = Asset(locals.receiver_tokens[i], locals.receiver_amounts[i])

\* A spend returned whose transfer slot is not slot 0: the transfer is taken
\* from that slot and the fee from slot 0.
C16_Witness ==
    /\ SpendReturned
    /\ locals.transfer_slot = 1
    /\ result.val.outputs.remainder.assets[2].amount = Lit(60)
    /\ result.val.outputs.remainder.assets[1].amount = Lit(8)

SlotErrors ==
    { "duplicate transfer token slots detected",
      "transfer token not present in input UTXO" }

\* C17: prove_spend gets past locating the transfer slot only when exactly
\* one of the four input slots has the transfer token, and then takes that
\* slot; with no or with several matching slots (a zero token matching
\* several empty slots among them) it returns an error before it samples a
\* salt, asks ensure_unique, signs or proves.
C17_UniqueTransferSlot ==
    (SpendCalled /\ SpendKeysOk(request)) =>
        LET n == Cardinality(MatchingSlots(request))
        IN  /\ n # 1 =>
                   /\ AbortedEarly
                   /\ result.val \in {IF n = 0
                                      THEN "transfer token not present in input UTXO"
                                      ELSE "duplicate transfer token slots detected",
                                      "circuit utxo_spend is not registered"}
            /\ n = 1 =>
                   /\ locals # <<>> => locals.transfer_slot = TheSlot(request)
                   /\ (pc = "done" /\ ~result.ok) => result.val \notin SlotErrors

\* A zero transfer token that matches three empty slots is refused.
C17_Witness ==
    /\ SpendCalled /\ SpendKeysOk(request)
    /\ request.transfer_token = Zero
    /\ Cardinality(MatchingSlots(request)) = 3
    /\ AbortedEarly
    /\ result.val = "duplicate transfer token slots detected"

MergeKeysOk(req) ==
    /\ \A k \in 1..2 :
           /\ req.inputs[k].signer.pk_x = req.signer.pk_x
           /\ req.inputs[k].signer.pk_y = req.signer.pk_y
           /\ req.inputs[k].utxo.recipient_pk_x = req.signer.pk_x
    /\ req.inputs[1].signer = req.inputs[2].signer

KeyErrors ==
    { "signer keypair does not match spend input public key",
      "spend input utxo recipient key does not match signer key",
      "signer keypair does not match merge input[0] public key",
      "signer keypair does not match merge input[1] public key",
      "merge inputs must share the same signer",
      "merge input utxo recipient key does not match signer key" }

\* C18: unless the signer's (pk_x, pk_y) is input.signer and the input
\* UTXO's recipient_pk_x is that pk_x, prove_spend returns an error without
\* asking ensure_unique, signing or proving; prove_merge does so unless this
\* holds of both inputs (whose signers are then equal).  With matching keys
\* neither returns a key error.
C18_SignerMustMatch ==
    /\ (SpendCalled /\ ~SpendKeysOk(request)) =>
           /\ AbortedEarly
           /\ result.val \in KeyErrors \cup {"circuit utxo_spend is not registered"}
    /\ (MergeCalled /\ ~MergeKeysOk(request)) =>
           /\ AbortedEarly
           /\ result.val \in KeyErrors \cup {"circuit utxo_merge is not registered"}
    /\ (scenario = "tx" /\ pc = "done" /\ ~result.ok
            /\ (IF request.kind = "spend" THEN SpendKeysOk(request)
                ELSE MergeKeysOk(request))) =>
           result.val \notin KeyErrors

\* A spend whose input names the signer's pk_x with another pk_y, and whose
\* request is otherwise in order, is refused.
C18_Witness ==
    /\ SpendCalled /\ AbortedEarly
    /\ request.input.signer = SchnorrPublicKey(X1, Y2)
    /\ request.input.utxo.recipient_pk_x = X1
    /\ Cardinality(MatchingSlots(request)) = 1 /\ ~Shortfall(request)
    /\ result.val = "signer keypair does not match spend input public key"

\* the output commitments of the returned transaction, as ensure_unique
\* was given them
ReturnedCommits ==
    IF request.kind = "spend" THEN result.val.expected_out_commits
    ELSE <<result.val.expected_out_commit>>

\* C19: a returned transaction carries no output commitments that
\* ensure_unique reported as colliding (the callback accepts them, and every
\* list the loop went round for is one the callback reports), and its
\* expected commitments, digest, msg32, signature, proof inputs and output
\* salts are those of one and the same turn of the loop: the last, which the
\* callback accepted.
C19_ReturnsAcceptedIteration ==
    /\ SpendReturned =>
           LET tx == result.val
           IN  /\ ReturnedCommits \notin reported
               /\ request.ensure_unique # None =>
                      check_fn(request.ensure_unique[1], ReturnedCommits) = Ok(FALSE)
               /\ tx.expected_out_commits
                      = <<commitment(tx.outputs.receiver), commitment(tx.outputs.remainder)>>
               /\ tx.digest = hash_fields(<<Lit(1), request.signer.pk_x,
                                  tx.transfer_token, tx.transfer_amount, tx.fee_amount,
                                  tx.expected_out_commits[1], tx.expected_out_commits[2]>>)
               /\ tx.msg32 = to_bytes(tx.digest)
               /\ tx.signature = sign_prehash(request.signer, tx.msg32)
               /\ tx.proof.inputs.abi.msg32 = tx.msg32
               /\ tx.proof.inputs.abi.receiver_salt = tx.outputs.receiver.salt
               /\ tx.proof.inputs.abi.remainder_salt = tx.outputs.remainder.salt
               /\ tx.proof.inputs.sig64 = tx.signature
    /\ MergeReturned =>
           LET tx == result.val
           IN  /\ ReturnedCommits \notin reported
               /\ request.ensure_unique # None =>
                      check_fn(request.ensure_unique[1], ReturnedCommits) = Ok(FALSE)
               /\ tx.expected_out_commit = commitment(tx.outputs.utxo)
               /\ tx.digest = hash_fields(<<Lit(2), request.signer.pk_x,
                                  tx.expected_out_commit, Zero, Zero, Zero>>)
               /\ tx.msg32 = to_bytes(tx.digest)
               /\ tx.signature = sign_prehash(request.signer, tx.msg32)
               /\ tx.proof.inputs.abi.msg32 = tx.msg32
               /\ tx.proof.inputs.abi.out_salt = tx.outputs.utxo.salt
               /\ tx.proof.inputs.sig64 = tx.signature
    /\ (scenario = "tx" /\ reported # {}) =>
           /\ request.ensure_unique # None
           /\ \A cs \in reported :
                  check_fn(request.ensure_unique[1], cs) = Ok(TRUE)

\* A spend returned after a rejection, with both salts other than those the
\* callback objects to.
C19_Witness ==
    /\ SpendReturned
    /\ reported # {}
    /\ result.val.outputs.receiver.salt # Lit(1)
    /\ result.val.outputs.remainder.salt # Lit(1)

\* the loop runs against a callback that reports a collision on every call
AlwaysColliding ==
    /\ scenario = "tx" /\ pc = "loop"
    /\ request.ensure_unique # None
    /\ request.ensure_unique[1].fail = {}
    /\ request.ensure_unique[1].always

\* C20: the retry loop ends for every callback; against one that reports a
\* collision on every call the operation returns an error after finitely
\* many attempts.
C20_RetryLoopTerminates ==
    [](AlwaysColliding => <>(pc = "done" /\ ~result.ok))

(***************************************************************************)
(* The circuit catalog and the embedded bootstrap.                         *)
(***************************************************************************)
\* the thread has returned from a call of init_embedded_catalog
ReturnedFromInit(t) ==
    thread[t].op = "init_embedded_catalog" /\ thread[t].pc = "idle"

\* the thread is inside catalog::init_embedded
InInitEmbedded(t) ==
    thread[t].pc \in { "init_embedded", "parse_abi", "with_bb_lock", "compile_mega",
                       "mega_vk_hash", "mega_vk_hash returns", "insert" }

\* C21: whatever the threads call and however often, catalog::init_embedded
\* runs at most once and each embedded circuit is compiled at most once; when
\* a call of init_embedded_catalog has returned, that run has completed and
\* has compiled every circuit it reached.
C21_CompiledOnce ==
    /\ bb_calls.init_embedded <= 1
    /\ bb_calls.made["compile_mega"] <= Len(embedded)
    /\ \A t \in Threads :
           ReturnedFromInit(t) =>
               /\ bb_calls.init_embedded = 1
               /\ EMBEDDED_INIT.state = "complete"
               /\ \A u \in Threads : ~InInitEmbedded(u)
               /\ EMBEDDED_INIT.value.ok =>
                      bb_calls.made["compile_mega"] = Len(embedded)

\* Two threads have returned from init_embedded_catalog after one run that
\* compiled both circuits.
C21_Witness ==
    /\ \A t \in Threads : ReturnedFromInit(t) /\ thread[t].ret.ok
    /\ bb_calls.init_embedded = 1
    /\ bb_calls.made["compile_mega"] = Len(embedded)

\* the thread has returned from all_loaded
ReturnedFromAllLoaded(t) == thread[t].op = "all_loaded" /\ thread[t].pc = "idle"

\* the entries of a bootstrap result, by name
EntriesByName(entries) ==
    [n \in { entries[i].name : i \in 1..Len(entries) } |->
        entries[CHOOSE i \in 1..Len(entries) : entries[i].name = n]]

\* C22: a thread that lists the catalog, whenever it does so, sees all the
\* embedded circuits or none of them, and an embedded circuit that is in the
\* catalog has the entry (key_id, vk, vk_hash) of the one bootstrap result.
C22_NoPartialBootstrapState ==
    /\ \A t \in Threads :
           ReturnedFromAllLoaded(t) =>
               \/ EmbeddedNames \subseteq thread[t].obs
               \/ EmbeddedNames \cap thread[t].obs = {}
    /\ (EMBEDDED_INIT.state = "complete" /\ EMBEDDED_INIT.value.ok) =>
           \A n \in EmbeddedNames \cap DOMAIN CACHE :
               CACHE[n] = EntriesByName(EMBEDDED_INIT.value.val)[n]

\* the one run of init_embedded has failed
BootstrapFailed == EMBEDDED_INIT.state = "complete" /\ ~EMBEDDED_INIT.value.ok

\* C23: once the run of init_embedded has failed, every call of
\* init_embedded_catalog that returns, whether it waited for the run or came
\* later, returns that error, and init_embedded is not run again.
C23_FailureShared ==
    /\ bb_calls.init_embedded <= 1
    /\ \A t \in Threads : InInitEmbedded(t) => EMBEDDED_INIT.state = "running"
    /\ BootstrapFailed =>
           \A t \in Threads :
               ReturnedFromInit(t) =>
                   /\ ~thread[t].ret.ok
                   /\ thread[t].ret.val = EMBEDDED_INIT.value.val

\* Two threads have got the error of the failed run, all calls spent.
C23_Witness ==
    /\ BootstrapFailed
    /\ \A t \in Threads : ReturnedFromInit(t) /\ ~thread[t].ret.ok
    /\ Started = MaxCalls
    /\ bb_calls.init_embedded = 1

\* the catalog holds every embedded circuit with its key_id, verifying key and
\* vk_hash
FullyPopulated(cache) ==
    \A i \in 1..Len(embedded) :
        /\ embedded[i].name \in DOMAIN cache
        /\ LET entry == cache[embedded[i].name]
           IN  /\ entry.key_id = KeyId(embedded[i].acir)
               /\ entry.vk = embedded[i].vk /\ entry.vk # ""
               /\ entry.vk_hash = Some(VkHash(entry.vk))

\* the step in which the thread returns Ok from init_embedded_catalog
ReturnsOkFromInit(t) ==
    /\ thread[t].pc = "match"
    /\ thread'[t].pc = "idle"
    /\ thread'[t].ret.ok

\* C24: at the return of Ok from init_embedded_catalog the catalog holds every
\* embedded circuit with its key_id, verifying key and vk_hash, whatever was
\* cleared before, and the returning step calls no backend function: the
\* entries are those of the first result, each circuit compiled once.
C24_OkMeansPopulated ==
    [][\A t \in Threads :
           ReturnsOkFromInit(t) =>
               /\ FullyPopulated(CACHE')
               /\ bb_calls'.made = bb_calls.made
               /\ bb_calls.made["compile_mega"] = Len(embedded)]_vars

\* A call of init_embedded_catalog made when both circuits had been compiled
\* and the catalog had been cleared has returned Ok, the catalog is populated
\* and nothing was compiled again.
C24_Witness ==
    \E t \in Threads :
        /\ ReturnedFromInit(t) /\ thread[t].ret.ok
        /\ thread[t].before.cache = EmptyMap
        /\ thread[t].before.made["compile_mega"] = Len(embedded)
        /\ bb_calls.made["compile_mega"] = Len(embedded)
        /\ FullyPopulated(CACHE)

(***************************************************************************)
(* Lazy derivation and catalog::update_vk.                                 *)
(***************************************************************************)
\* the thread has returned from a call of op_name
ReturnedFrom(t, op_name) == thread[t].op = op_name /\ thread[t].pc = "idle"

\* C25: update_vk leaves name, acir and abi of the entry and every other
\* entry alone, changes nothing for a name that is not registered, leaves
\* key_id alone when called with key_id = None, and leaves an existing
\* Some(vk_hash) in place when called with vk_hash = None.
C25_UpdateVkNeverDiscards ==
    \A t \in Threads :
        ReturnedFrom(t, "update_vk") =>
            LET name == thread[t].arg[1]
                vk_hash == thread[t].arg[3]
                key_id == thread[t].arg[4]
                old == thread[t].before.cache
            IN  /\ DOMAIN CACHE = DOMAIN old
                /\ \A n \in DOMAIN old \ {name} : CACHE[n] = old[n]
                /\ name \in DOMAIN old =>
                       /\ CACHE[name].name = old[name].name
                       /\ CACHE[name].acir = old[name].acir
                       /\ CACHE[name].abi = old[name].abi
                       /\ key_id = None => CACHE[name].key_id = old[name].key_id
                       /\ (vk_hash = None /\ old[name].vk_hash # None) =>
                              CACHE[name].vk_hash = old[name].vk_hash

(***************************************************************************)
(* Locks.                                                                  *)
(***************************************************************************)
\* C26: at most one thread is inside a function of the backend at any time,
\* and a thread that is inside one holds BB_GUARD.
C26_BackendSerialized ==
    /\ Cardinality({ c[1] : c \in bb_calls.inside }) <= 1
    /\ \A c \in bb_calls.inside : BB_GUARD = c[1]

\* C27: no thread holds the catalog mutex while a function of the backend is
\* being executed by it.
C27_CatalogLockNotHeldInBackend ==
    \A c \in bb_calls.inside : cache_guard # c[1]

\* C29: after a run of init_embedded that failed, the catalog holds none of
\* the entries that run had built.
C29_FailedBootstrapLeavesNothing ==
    BootstrapFailed => EmbeddedNames \cap DOMAIN CACHE = {}

(***************************************************************************)
(* Lazy derivation, call by call.  For a call that has returned, the       *)
(* catalog before it and the backend calls made during it:                 *)
(***************************************************************************)
\* backend calls of fn made during the call the thread has returned from
MadeDuring(t, fn) == bb_calls.made[fn] - thread[t].before.made[fn]

NoBackendCallDuring(t) == \A fn \in BackendFns : MadeDuring(t, fn) = 0

\* the entries the call found under its key id
FoundBefore(t) == get_circuit_by_key_id(thread[t].before.cache, thread[t].arg)

\* what the claim says of get_vk_bytes_by_id
LazyBytes(t) ==
    ReturnedFrom(t, "get_vk_bytes_by_id") =>
        \A e \in FoundBefore(t) :
            /\ e.vk = "" =>
                   /\ MadeDuring(t, "compile_mega") = 1
                   /\ MadeDuring(t, "write_vk_mega_honk") <= 1
                   /\ MadeDuring(t, "mega_vk_hash") <= 1
                   /\ thread[t].ret.ok =>
                          /\ CACHE[e.name].vk # ""
                          /\ CACHE[e.name].vk = thread[t].ret.val
                          /\ CACHE[e.name].vk_hash = Some(VkHash(thread[t].ret.val))
            /\ e.vk # "" =>
                   /\ thread[t].ret = Ok(e.vk)
                   /\ NoBackendCallDuring(t)

\* what the claim says of get_vk_hash_by_id, but for the number of hashes
LazyHash(t) ==
    ReturnedFrom(t, "get_vk_hash_by_id") =>
        \A e \in FoundBefore(t) :
            /\ e.vk_hash = None =>
                   /\ MadeDuring(t, "compile_mega") <= 1
                   /\ MadeDuring(t, "write_vk_mega_honk") <= 1
                   /\ e.vk # "" => MadeDuring(t, "compile_mega") = 0
                   /\ thread[t].ret.ok =>
                          /\ CACHE[e.name].vk # ""
                          /\ CACHE[e.name].vk_hash = Some(thread[t].ret.val)
                          /\ thread[t].ret.val = VkHash(CACHE[e.name].vk)
            /\ e.vk_hash # None =>
                   /\ thread[t].ret = Ok(e.vk_hash[1])
                   /\ NoBackendCallDuring(t)

\* C28 as stated: a lazy call regenerates once and hashes once, a successful
\* one leaves a non-empty vk and the returned hash in the entry, a call on an
\* entry that has the value returns it without a backend call, and a failed
\* attempt is not repeated.
C28_LazyOnceAndCached ==
    \A t \in Threads :
        /\ LazyBytes(t)
        /\ LazyHash(t)
        /\ ReturnedFrom(t, "get_vk_hash_by_id") =>
               \A e \in FoundBefore(t) :
                   e.vk_hash = None =>
                       /\ MadeDuring(t, "mega_vk_hash") <= 1
                       /\ thread[t].ret.ok => MadeDuring(t, "mega_vk_hash") = 1

\* C28, amended: as stated, except that get_vk_hash_by_id on an entry with
\* vk_hash = None hashes once only when the entry has a verifying key; when
\* the vk is empty as well it regenerates once and hashes at most twice, once
\* inside the regeneration and once on the regenerated key, and exactly twice
\* when it succeeds.
C28_LazyOnceAndCachedAmended ==
    \A t \in Threads :
        /\ LazyBytes(t)
        /\ LazyHash(t)
        /\ ReturnedFrom(t, "get_vk_hash_by_id") =>
               \A e \in FoundBefore(t) :
                   e.vk_hash = None =>
                       /\ e.vk # "" => MadeDuring(t, "mega_vk_hash") = 1
                       /\ e.vk = "" =>
                              /\ MadeDuring(t, "mega_vk_hash") <= 2
                              /\ thread[t].ret.ok =>
                                     /\ MadeDuring(t, "mega_vk_hash") = 2
                                     /\ MadeDuring(t, "compile_mega") = 1

\* A call of get_vk_hash_by_id has returned the cached hash without a backend
\* call, after a call that regenerated once and hashed twice.
C28_Witness ==
    \E t \in Threads :
        /\ ReturnedFrom(t, "get_vk_hash_by_id") /\ thread[t].ret.ok
        /\ FoundBefore(t) # {}
        /\ NoBackendCallDuring(t)
        /\ thread[t].before.made["compile_mega"] = 1
        /\ thread[t].before.made["mega_vk_hash"] = 2
        /\ Started = 2

\* C30: when get_vk_bytes_by_id has returned an error, the catalog is as it
\* was before the call: no entry has another vk, vk_hash or key_id.
C30_FailingGetVkBytesHasNoEffect ==
    \A t \in Threads :
        (ReturnedFrom(t, "get_vk_bytes_by_id") /\ ~thread[t].ret.ok) =>
            CACHE = thread[t].before.cache

(***************************************************************************)
(* Unregistered names and unknown key ids.                                 *)
(***************************************************************************)
ByNameOps == { "get_key_id", "regenerate_vk" } \cup ProveFns

ByKeyIdOps == { "get_vk_bytes_by_id", "get_vk_hash_by_id" }

\* the call the thread has returned from named a circuit that was not
\* registered, or a key id under which nothing was
OnUnregistered(t) ==
    /\ thread[t].pc = "idle"
    /\ \/ /\ thread[t].op \in ByNameOps
          /\ thread[t].arg \notin DOMAIN thread[t].before.cache
       \/ /\ thread[t].op \in ByKeyIdOps
          /\ FoundBefore(t) = {}
          /\ thread[t].arg \notin DOMAIN VK_REGISTRY

\* C31: a call of get_key_id, prove, verify, regenerate_vk,
\* prove_with_all_inputs, get_vk_bytes_by_id or get_vk_hash_by_id on a name
\* or key id that is not registered returns an error, makes no backend call
\* and leaves the catalog as it was.
C31_UnregisteredIsAnError ==
    \A t \in Threads :
        OnUnregistered(t) =>
            /\ ~thread[t].ret.ok
            /\ NoBackendCallDuring(t)
            /\ CACHE = thread[t].before.cache
            /\ BB_GUARD = 0 /\ bb_calls.inside = {}

\* prove has returned an error for a name that is not registered, from a
\* catalog that holds other circuits.
C31_Witness ==
    \E t \in Threads :
        /\ OnUnregistered(t)
        /\ thread[t].op = "prove"
        /\ thread[t].before.cache # EmptyMap
        /\ ~thread[t].ret.ok

(***************************************************************************)
(* The block as a ledger update.                                           *)
(***************************************************************************)
\* the record of a leaf: leaf ids are the positions in the candidate list
RecordOf(leaf) == cands[leaf.leaf_id].record

\* the inputs of the leaves of the block, as pairs <<leaf position, input
\* position>>
InputSlots ==
    { <<p, k>> \in (1..Len(Out)) \X (1..2) : k <= Len(inputs(RecordOf(Out[p]))) }

InputAt(s) == inputs(RecordOf(Out[s[1]]))[s[2]]

\* C32: no commitment occurs twice among all the inputs of all the leaves of
\* the block returned by validate_and_plan_block, the two inputs of a merge
\* counted separately.
C32_NoInputTwice ==
    ValidateDone =>
        \A s1, s2 \in InputSlots : s1 # s2 => InputAt(s1) # InputAt(s2)

\* C33: every input of a leaf in `leaves` that the membership oracle does not
\* hold is an output of a leaf at an earlier position of `leaves`; none comes
\* from the deferred leaf.
C33_PrefixSelfContained ==
    ValidateDone =>
        \A p \in 1..Len(block.leaves) :
            \A k \in 1..Len(inputs(RecordOf(block.leaves[p]))) :
                LET c == inputs(RecordOf(block.leaves[p]))[k]
                IN  c \notin membership =>
                        \E q \in 1..(p - 1) :
                            \E o \in 1..Len(outputs(RecordOf(block.leaves[q]))) :
                                outputs(RecordOf(block.leaves[q]))[o] = c

\* Three candidates are accepted, the second spends an output of the first
\* and the third, which spends an output of the second, is deferred.
C33_Witness ==
    /\ ValidateDone
    /\ Len(block.leaves) = 2 /\ block.deferred # None
    /\ inputs(RecordOf(block.leaves[2]))[1] \notin membership
    /\ \E o \in 1..2 :
           outputs(RecordOf(block.leaves[2]))[o] = inputs(RecordOf(block.deferred[1]))[1]

\* the outputs of the leaves of the block, as pairs <<leaf position, output
\* position>>
OutputSlots ==
    { <<p, k>> \in (1..Len(Out)) \X (1..2) : k <= Len(outputs(RecordOf(Out[p]))) }

OutputAt(s) == outputs(RecordOf(Out[s[1]]))[s[2]]

\* C34: no output of a leaf of the block is in the membership oracle, and no
\* commitment occurs twice among all the outputs of all the leaves, those of
\* one record included.
C34_NoOutputTwice ==
    ValidateDone =>
        /\ \A s \in OutputSlots : OutputAt(s) \notin membership
        /\ \A s1, s2 \in OutputSlots : s1 # s2 => OutputAt(s1) # OutputAt(s2)

(***************************************************************************)
(* Domain separation of the uses of hash_fields.                           *)
(***************************************************************************)
\* C35: no two different uses of the hash hand the same array of Fields to
\* hash_fields, the digest of the leaf hashes inside hash_manifest counted as
\* a use of its own.
C35_DomainSeparated ==
    \A i, j \in 1..Len(trace) :
        trace[i].use # trace[j].use => trace[i].fields # trace[j].fields

\* C35 (amended): the uses other than the digest of the leaf hashes never
\* hand the same array to hash_fields; the digest of the leaf hashes hands
\* the array of another use only when the number of leaves is the length of
\* that array and, for a use with a tag, the first leaf hash is the tag.
C35_DomainSeparatedAmended ==
    \A i, j \in 1..Len(trace) :
        trace[i].use # trace[j].use /\ trace[i].fields = trace[j].fields =>
            /\ "leaves_digest" \in {trace[i].use, trace[j].use}
            /\ Len(trace[i].fields) \in {3, 4, 5, 6, 7, 10}
            /\ Len(trace[i].fields) # 10 => trace[i].fields[1] \in Tags

\* A spend leaf and a spend digest, the two uses with arrays of one length,
\* were hashed over the same values after the tag.
C35_Witness ==
    \E i, j \in 1..Len(trace) :
        /\ trace[i].use = "hash_spend_leaf" /\ trace[j].use = "spend_digest"
        /\ Tail(trace[i].fields) = Tail(trace[j].fields)

(***************************************************************************)
(* Catalog entries under concurrent registration and lazy derivation.      *)
(***************************************************************************)
\* the verifying keys of a circuit: the one write_vk_mega_honk derives and
\* the one bundled with an embedded circuit
VksOf(acir) ==
    { Vk(acir) } \cup { embedded[i].vk : i \in { j \in 1..Len(embedded) : embedded[j].acir = acir } }

Consistent(entry) ==
    entry.vk # "" /\ entry.vk_hash # None =>
        /\ entry.vk \in VksOf(entry.acir)
        /\ entry.vk_hash = Some(VkHash(entry.vk))
        /\ entry.key_id \in { KeyId(entry.acir), OtherKeyId(entry.acir) }

\* C36: with init_circuit_from_artifacts, insert, regenerate_vk,
\* get_vk_bytes_by_id and get_vk_hash_by_id running on two threads, every
\* entry of the catalog that has a verifying key and a hash has the key of
\* its own acir, the hash of that key and a compile id of that acir.
C36_EntriesStayConsistent ==
    (\A t \in ConcThreads : thread[t].op # "update_vk") =>
        \A n \in DOMAIN CACHE : Consistent(CACHE[n])

(***************************************************************************)
(* The locks: the catalog mutex, the backend mutex and the once-cell of    *)
(* the bootstrap.                                                          *)
(***************************************************************************)
\* the thread is about to lock the catalog mutex
LocksCatalog(t) ==
    \/ thread[t].pc \in { "init_embedded", "gvb_lookup", "regen_get", "regen_update",
                          "gvb_refreshed", "gvh_lookup", "gvh_hashed", "prove_get",
                          "ica_insert" }
    \/ thread[t].pc = "match" /\ EMBEDDED_INIT.value.ok

\* the thread is about to lock the backend mutex in with_bb_lock
LocksBackend(t) ==
    thread[t].pc \in { "with_bb_lock", "regen_lock", "prove_lock", "ica_lock", "ica_lock_vk" }

\* the thread is in get_or_init
AtOnceCell(t) == thread[t].pc = "get_or_init"

\* the thread that runs the closure of the once-cell
RunsInitEmbedded(t) ==
    thread[t].pc \in { "init_embedded", "parse_abi", "with_bb_lock", "compile_mega",
                       "mega_vk_hash", "mega_vk_hash returns", "insert" }

\* the threads t waits for
BlockedBy(t) ==
    IF LocksCatalog(t) /\ cache_guard # 0 THEN { cache_guard }
    ELSE IF LocksBackend(t) /\ BB_GUARD # 0 THEN { BB_GUARD }
    ELSE IF AtOnceCell(t) /\ EMBEDDED_INIT.state = "running"
    THEN { u \in ConcThreads : RunsInitEmbedded(u) }
    ELSE {}

Blocked(t) ==
    \/ LocksCatalog(t) /\ cache_guard # 0
    \/ LocksBackend(t) /\ BB_GUARD # 0
    \/ AtOnceCell(t) /\ EMBEDDED_INIT.state = "running"

\* no thread locks the backend mutex while it holds it, no holder of the
\* backend mutex waits for the catalog mutex or the once-cell, and no set of
\* threads waits for one another
LockDiscipline ==
    /\ \A t \in ConcThreads : LocksBackend(t) => BB_GUARD # t
    /\ \A t \in ConcThreads : BB_GUARD = t => ~LocksCatalog(t) /\ ~AtOnceCell(t)
    /\ \A S \in SUBSET ConcThreads :
           S # {} => \E t \in S : ~Blocked(t) \/ BlockedBy(t) \cap S = {}

\* C38: the lock discipline holds in every state, and every call that has
\* started returns, whatever the interleaving of the two threads.
C38_DeadlockFree ==
    /\ []LockDiscipline
    /\ \A t \in ConcThreads : (thread[t].pc # "idle") ~> (thread[t].pc = "idle")

\* The bootstrap holds the catalog mutex and waits for the backend mutex,
\* which the other thread holds inside the backend.
C38_Witness ==
    \E t, u \in ConcThreads :
        /\ thread[t].pc = "with_bb_lock" /\ cache_guard = t
        /\ BB_GUARD = u /\ u # t

(***************************************************************************)
(* init_embedded_catalog after the bootstrap.                              *)
(***************************************************************************)
\* t is in a call of init_embedded_catalog that found the bootstrap done and
\* successful: it is at the match, and the backend was not called since the
\* call began
InLaterCall(t) ==
    /\ thread[t].op = "init_embedded_catalog" /\ thread[t].pc = "match"
    /\ EMBEDDED_INIT.value.ok
    /\ thread[t].before.made = bb_calls.made

\* C37: a call of init_embedded_catalog after the first leaves every entry
\* of the catalog as it was.
C37_LaterCallsChangeNothing ==
    [][\A t \in Threads :
           InLaterCall(t) /\ thread'[t].pc = "idle" =>
               \A n \in DOMAIN CACHE : n \in DOMAIN CACHE' /\ CACHE'[n] = CACHE[n]]_vars

\* C37 (amended): a call of init_embedded_catalog after the first calls no
\* backend function and returns Ok; it leaves the entries under other names
\* as they were and puts the entries of the bootstrap back under the names
\* of the embedded circuits.
C37_LaterCallsRestoreEmbedded ==
    [][\A t \in Threads :
           InLaterCall(t) /\ thread'[t].pc = "idle" =>
               /\ thread'[t].ret = Ok(<<>>)
               /\ bb_calls'.made = thread[t].before.made
               /\ DOMAIN CACHE' = DOMAIN CACHE \cup EmbeddedNames
               /\ \A n \in DOMAIN CACHE \ EmbeddedNames : CACHE'[n] = CACHE[n]
               /\ \A n \in EmbeddedNames :
                      CACHE'[n] = EntriesByName(EMBEDDED_INIT.value.val)[n]]_vars

\* A later call has returned with the catalog changed: it found an entry
\* under each embedded name and put the entry of the bootstrap in its place.
C37_Witness ==
    \E t \in Threads :
        /\ thread[t].op = "init_embedded_catalog" /\ thread[t].pc = "idle"
        /\ thread[t].ret = Ok(<<>>)
        /\ thread[t].before.made = bb_calls.made
        /\ thread[t].before.cache # CACHE
        /\ EmbeddedNames \subseteq DOMAIN thread[t].before.cache

(***************************************************************************)
(* Amounts as integers.                                                    *)
(***************************************************************************)
\* the integer a Field stands for, as <<k, m>> for k * modulus + m: a literal
\* n is n, and modulus - n is one modulus less n
AsInteger(a) == IF IsLit(a) THEN <<0, a[2]>> ELSE <<1, 0 - a[2]>>

Plus(x, y) == <<x[1] + y[1], x[2] + y[2]>>

\* x <= y for integers below the modulus
AtMost(x, y) == x[1] < y[1] \/ (x[1] = y[1] /\ x[2] <= y[2])

\* C39: when prove_spend is past its funds checks the amounts are conserved
\* as integers: in slot 0 transfer + fee is below the modulus and in[0] =
\* remainder[0] + transfer + fee with remainder[0] <= in[0]; in another slot
\* in[slot] = remainder[slot] + transfer and in[0] = remainder[0] + fee.
C39_NoWrapAround ==
    (SpendCalled /\ SpendKeysOk(request) /\ Cardinality(MatchingSlots(request)) = 1
        /\ ~Shortfall(request) /\ ~AbortedEarly) =>
        LET s   == TheSlot(request)
            t   == AsInteger(request.transfer_amount)
            f   == AsInteger(request.fee_amount)
            rem == [i \in 1..MAX_ASSETS |-> AsInteger(locals.remainder_amounts[i])]
            in  == [i \in 1..MAX_ASSETS |-> AsInteger(InAmount(request, i - 1))]
        IN  IF s = 0
            THEN /\ Plus(t, f)[1] = 0
                 /\ in[1] = Plus(rem[1], Plus(t, f))
                 /\ AtMost(rem[1], in[1])
            ELSE /\ in[s + 1] = Plus(rem[s + 1], t)
                 /\ in[1] = Plus(rem[1], f)

\* C40: prove_merge called with out_salt = Some(s) packs the output with s
\* until ensure_unique reports a collision and samples a salt only after
\* one; returned with no collision reported, its output UTXO has salt s, the
\* signer's pk_x, the requested tokens and amounts, and expected_out_commit
\* is the commitment of that UTXO.
C40_SuppliedSaltHonoured ==
    (MergeCalled /\ request.out_salt # None) =>
        /\ (reported = {} /\ pc \in {"loop", "prepared"}) =>
               salts = <<request.out_salt[1]>>
        /\ "random_salt_field" \in effects => reported # {}
        /\ (MergeReturned /\ reported = {}) =>
               LET u == result.val.outputs.utxo
               IN  /\ u.salt = request.out_salt[1]
                   /\ u.recipient_pk_x = request.signer.pk_x
                   /\ u.assets = assets_of(request.out_tokens, request.out_amounts)
                   /\ result.val.expected_out_commit = commitment(u)
                   /\ result.val.expected_out_commit
                          = hash10(<<request.signer.pk_x,
                                     request.out_tokens[1], request.out_amounts[1],
                                     request.out_tokens[2], request.out_amounts[2],
                                     request.out_tokens[3], request.out_amounts[3],
                                     request.out_tokens[4], request.out_amounts[4],
                                     request.out_salt[1]>>)

\* A merge returned with the salt the caller supplied, after the callback
\* was asked and reported no collision.
C40_Witness ==
    /\ MergeReturned /\ request.out_salt # None /\ reported = {}
    /\ request.ensure_unique # None
    /\ result.val.outputs.utxo.salt = request.out_salt[1]

=============================================================================
